---- MODULE Spec2Model ----
(***************************************************************************)
(* Verification model of the BTC15 two-phase bracket executor              *)
(* (src/bot/strategies/btc15_two_phase.py).                                *)
(*                                                                         *)
(* One process runs execute_bracket calls one at a time against a durable  *)
(* store (SQLite) and a leg executor (Bankr sidecar or direct CLOB).       *)
(* execute_bracket is cut into steps at its store writes and its exchange  *)
(* calls: these are the points where a process crash, a failed commit or   *)
(* an exception of the placer leaves an observable state behind.           *)
(***************************************************************************)
EXTENDS Integers, Sequences, FiniteSets, TLC

(* ---- bounds of the model ---- *)
MaxElapsed == 2       \* longest time followed between the two reads of the clock
MaxDay == 1           \* last UTC day
MaxEst == 2           \* largest estimated_total_usdc passed to a call

EIDs == {"e1", "e2"}  \* the execution ids the scanner asks for
Estimates == 1..MaxEst

(* ---- BTC15ExecutionState ---- *)
PLANNED == "PLANNED"
LEG_A_PLACED == "LEG_A_PLACED"
LEG_A_FILLED == "LEG_A_FILLED"
LEG_B_PLACED == "LEG_B_PLACED"
HEDGED_FILLED == "HEDGED_FILLED"
DONE == "DONE"
ABORTED == "ABORTED"
ABSENT == "ABSENT"    \* no row for this execution_id (store.get returns None)

BTC15ExecutionState ==
  {PLANNED, LEG_A_PLACED, LEG_A_FILLED, LEG_B_PLACED, HEDGED_FILLED, DONE, ABORTED}

Terminal == {DONE, ABORTED}

\* `rec.state in (DONE, ABORTED)`, line 462
is_terminal(state) == state \in {DONE, ABORTED}

(* ---- responses of the exchange ---- *)
\* A response dict, reduced to the keys the code reads.
EmptyResp ==
  [empty |-> TRUE, status |-> "", success |-> "absent", summary |-> "",
   id |-> "", dry_run |-> FALSE]

BankrFilledResp ==
  [empty |-> FALSE, status |-> "ok", success |-> "true", summary |-> "FILLED",
   id |-> "j1", dry_run |-> FALSE]

BankrNotFilledResp ==
  [empty |-> FALSE, status |-> "ok", success |-> "true", summary |-> "NOT_FILLED",
   id |-> "j1", dry_run |-> FALSE]

ClobDryRunResp ==
  [empty |-> FALSE, status |-> "", success |-> "absent", summary |-> "",
   id |-> "", dry_run |-> TRUE]

ClobOrderResp ==
  [empty |-> FALSE, status |-> "", success |-> "absent", summary |-> "",
   id |-> "o1", dry_run |-> FALSE]

ClobNoIdResp ==
  [empty |-> FALSE, status |-> "", success |-> "absent", summary |-> "",
   id |-> "", dry_run |-> FALSE]

\* _looks_like_filled(result)
looks_like_filled(result) ==
  IF result.empty THEN FALSE
  ELSE IF result.status # "" /\ result.status # "ok" THEN FALSE
  ELSE IF result.success = "false" THEN FALSE
  ELSE IF result.summary \in {"NOT_FILLED", "CANCELLED", "FAILED"} THEN FALSE
  ELSE TRUE

(* ---- the persisted record ---- *)
NoneId == "None"      \* Python None in an id column
NoJson == [present |-> FALSE, place |-> EmptyResp, confirm |-> "absent"]

NoRec ==
  [state |-> ABSENT, created_day |-> 0, estimated_total_usdc |-> 0,
   execution_backend |-> "None",
   leg_a_job_id |-> NoneId, leg_b_job_id |-> NoneId,
   leg_a_order_id |-> NoneId, leg_b_order_id |-> NoneId,
   leg_a_raw_json |-> NoJson, leg_b_raw_json |-> NoJson]

\* BTC15ExecutionRecord(...) as built at lines 451-459 (created_at still "").
NewRecord(est, backend) ==
  [NoRec EXCEPT !.state = PLANNED, !.estimated_total_usdc = est,
                !.execution_backend = backend]

VARIABLES
  cfg,             \* ExecutionConfig and the leg executor chosen at construction
  store,           \* table btc15_orders: execution_id -> row (NoRec when absent)
  pc,              \* position of the running execute_bracket call, "idle" if none
  args,            \* arguments of the running (or last) call
  rec,             \* the in-memory BTC15ExecutionRecord of the call
  loc,             \* locals: elapsed (time.time() - start_unhedged), ext, raw_place, filled
  result,          \* how the last call ended
  calls,           \* exchange calls made by the running (or last) call, in order
  hist,            \* per execution id: what ever happened on the wire / in the store
  today,           \* _utc_today_yyyy_mm_dd()
  journal,         \* the running (or last) call: requests sent out, states written
  active_positions,    \* BTC15OptimizedScanner._active_positions: slugs held
  simulation_enabled,  \* environment variable SIMULATION_ENABLED
  opp,                 \* the opportunity the scanner is acting on, and what it did with it
  books,               \* BTC15WSBookCache._books: token id -> bid and ask ladders
  dirty_token_ids,     \* BTC15WSBookCache._dirty_token_ids
  update_event,        \* BTC15WSBookCache._update_event (is it set)
  last_msg,            \* the message of the last apply_market_event call
  written,             \* tokens a message wrote to since the last drain
  drained,             \* what the last call returned, when it was a drain
  stop_set,            \* CLOBMarketWSSubscriber._stop is set
  connected,           \* the market socket is open
  waiter,              \* the scanner thread's wait_for_update call
  stop_saw_waiter,     \* the last stop() was called while the waiter was blocked
  last_ts,             \* per token: _TokenBookState.last_ts
  clock,               \* time.time()
  book_source,         \* where the scanner's last bracket books came from
  input,               \* the argument of the last call of a pure function
  output,              \* what that call returned
  ingest,              \* the socket thread inside apply_market_event: does it hold _lock
  snapshot,            \* the MarketOrderbook the last get_orderbook call returned
  run_pc,              \* where the btc15-wss thread is inside _run
  backoff,             \* _run's local `backoff`, in BackoffUnit-ths of a second
  delay,               \* the argument of the thread's last time.sleep, 0 before the first
  table,               \* btc15_orders with every column: execution_id -> row, NoRow if none
  wall,                \* what _utcnow_iso() returns
  exposure             \* per execution id: time passed with leg A placed and leg B not

scanner_vars == <<active_positions, simulation_enabled, opp>>

\* the variables the two-phase executor does not touch
book_vars == <<books, dirty_token_ids, update_event, last_msg, written, drained, last_ts>>
ws_vars == <<stop_set, connected, waiter, stop_saw_waiter>>
source_vars == <<clock, book_source>>
fn_vars == <<input, output>>
lock_vars == <<ingest, snapshot>>
run_vars == <<run_pc, backoff, delay>>
orders_vars == <<table, wall>>
late_vars == <<lock_vars, run_vars, orders_vars, exposure>>
side_vars == <<source_vars, fn_vars, late_vars>>
others == <<scanner_vars, book_vars, ws_vars, side_vars>>

exec_vars == <<cfg, store, pc, args, rec, loc, result, calls, hist, today, journal>>
vars == <<exec_vars, others>>


(* ---- BTC15OrdersStore ---- *)
RECURSIVE SumEst(_, _, _)
SumEst(s, ids, day) ==
  IF ids = {} THEN 0
  ELSE LET e == CHOOSE x \in ids : TRUE
       IN  (IF s[e].state # ABSENT /\ s[e].created_day = day
            THEN s[e].estimated_total_usdc ELSE 0)
           + SumEst(s, ids \ {e}, day)

\* mutant: the sum skips the rows that are not DONE
RECURSIVE SumEstDone(_, _, _)
SumEstDone(s, ids, day) ==
  IF ids = {} THEN 0
  ELSE LET e == CHOOSE x \in ids : TRUE
       IN  (IF s[e].state = DONE /\ s[e].created_day = day
            THEN s[e].estimated_total_usdc ELSE 0)
           + SumEstDone(s, ids \ {e}, day)

sum_estimated_usdc_done_only(s, day) == SumEstDone(s, EIDs, day)

\* BTC15OrdersStore.sum_estimated_usdc_for_day(utc_day)
sum_estimated_usdc_for_day(s, day) == SumEst(s, EIDs, day)

\* mutant: the lookup misses the row
store_get_missing(s, e) == NoRec

\* BTC15OrdersStore.get(execution_id); NoRec stands for None
store_get(s, e) == s[e]

\* BTC15OrdersStore.count_open()
count_open(s) == Cardinality({e \in EIDs : s[e].state \notin {ABSENT, DONE, ABORTED}})

\* The row BTC15OrdersStore.upsert(rec) leaves in the table: INSERT takes every
\* column of rec (created_at = now when rec has none), ON CONFLICT keeps the
\* old created_at and overwrites the listed columns.
upsert_row(old, r, day) ==
  IF old.state = ABSENT THEN [r EXCEPT !.created_day = day]
  ELSE [r EXCEPT !.created_day = old.created_day]

upsert(s, e, r, day) == [s EXCEPT ![e] = upsert_row(s[e], r, day)]

(* ---- ExecutionConfig, as get_btc15_two_phase_executor builds it ---- *)
\* BTC15_MAX_UNHEDGED_SECONDS (default 25), in units of the model clock: the
\* guard passes at elapsed 0 and 1 and aborts beyond
max_unhedged_seconds == 1

Cfg(dry, enabled, open, per_bracket, daily, backend) ==
  [dry_run |-> dry, trading_enabled |-> enabled, max_open_brackets |-> open,
   max_estimated_usdc_per_bracket |-> per_bracket,
   daily_estimated_usdc_cap |-> daily, backend |-> backend]

\* The configurations explored: live, dry-run and switched-off trading on both
\* backends, with the caps off (0) and on.
Configs ==
  { Cfg(FALSE, TRUE, 1, 0, 0, "bankr"),
    Cfg(FALSE, TRUE, 2, 1, 0, "bankr"),
    Cfg(FALSE, TRUE, 2, 0, 2, "bankr"),
    Cfg(TRUE, FALSE, 1, 1, 2, "bankr"),
    Cfg(FALSE, FALSE, 2, 0, 0, "bankr"),
    Cfg(FALSE, TRUE, 1, 0, 0, "clob"),
    Cfg(FALSE, TRUE, 2, 1, 2, "clob"),
    Cfg(TRUE, FALSE, 1, 0, 0, "clob"),
    Cfg(TRUE, TRUE, 2, 1, 0, "clob"),
    Cfg(FALSE, FALSE, 1, 0, 2, "clob") }

\* mutant: the kill switch is not consulted
kill_switch_blocks_never(c) == FALSE

\* lines 434-435: `if (not cfg.dry_run) and (not cfg.trading_enabled): return False`
kill_switch_blocks(c) == ~c.dry_run /\ ~c.trading_enabled

\* mutant: the pile-up brake compares with > instead of >=
risk_gate_rejects_off_by_one(c, s, est, day) ==
  \/ kill_switch_blocks(c)
  \/ c.max_estimated_usdc_per_bracket # 0 /\ est > c.max_estimated_usdc_per_bracket
  \/ c.daily_estimated_usdc_cap # 0
       /\ sum_estimated_usdc_for_day(s, day) + est > c.daily_estimated_usdc_cap
  \/ count_open(s) > c.max_open_brackets

(* ---- the risk gate of execute_bracket, lines 433-447 ---- *)
risk_gate_rejects(c, s, est, day) ==
  \/ kill_switch_blocks(c)
  \/ c.max_estimated_usdc_per_bracket # 0 /\ est > c.max_estimated_usdc_per_bracket
  \/ c.daily_estimated_usdc_cap # 0
       /\ sum_estimated_usdc_for_day(s, day) + est > c.daily_estimated_usdc_cap
  \/ count_open(s) >= c.max_open_brackets

(* ---- locals and history ---- *)
NoLoc == [elapsed |-> 0, ext |-> "", raw_place |-> EmptyResp, filled |-> FALSE]
NoHist == [placed_a |-> 0, placed_b |-> 0,
           a_fill_confirmed |-> FALSE, a_filled_persisted |-> FALSE]
Bump(n) == IF n < 2 THEN n + 1 ELSE 2

\* what a committed row adds to the history of its execution id
Persisted(h, e, r) ==
  [h EXCEPT ![e].a_filled_persisted = @ \/ r.state = LEG_A_FILLED]

NoArgs == [eid |-> "e1", est |-> 1, found |-> ABSENT]

\* what the current call has done so far: the requests that left the process
\* and the states it has written to the record, in order
NoJournal == [wire |-> 0, states |-> <<>>]
OnWire(j, n) == [j EXCEPT !.wire = @ + n]
Logged(j, old, new) == IF new # old THEN [j EXCEPT !.states = Append(@, new)] ELSE j

\* the book cache before any message: no token has a _TokenBookState
Tokens == {"T", "U"}
EmptyDict == [p \in {} |-> 0]
NoBook == [present |-> FALSE, bids_by_price |-> EmptyDict, asks_by_price |-> EmptyDict]
NoMsg == [event_type |-> "none"]
NoDrain == [returned |-> FALSE, tokens |-> {}]
NoSource == [source |-> "none", age |-> 0]
NoInput == [fn |-> "none"]
NoOutput == [fn |-> "none"]

\* no opportunity is being acted on
NoOpp == [slug |-> "", edge |-> 0, codes |-> <<>>, handed |-> FALSE]

\* nothing stored, nothing running, nothing in memory
Blank ==
  /\ store = [e \in EIDs |-> NoRec]
  /\ pc = "idle"
  /\ args = NoArgs
  /\ rec = NoRec
  /\ loc = NoLoc
  /\ result = "none"
  /\ calls = <<>>
  /\ hist = [e \in EIDs |-> NoHist]
  /\ today = 0
  /\ journal = NoJournal
  /\ active_positions = {}
  /\ opp = NoOpp
  /\ books = [t \in Tokens |-> NoBook]
  /\ dirty_token_ids = {}
  /\ update_event = FALSE
  /\ last_msg = NoMsg
  /\ written = {}
  /\ drained = NoDrain
  /\ stop_set = FALSE
  /\ connected = FALSE
  /\ waiter = "none"
  /\ stop_saw_waiter = FALSE
  /\ last_ts = [t \in Tokens |-> 0]
  /\ clock = 0
  /\ book_source = NoSource
  /\ input = NoInput
  /\ output = NoOutput
  /\ ingest = [holding |-> FALSE]
  /\ snapshot = [taken |-> FALSE]
  /\ run_pc = "none"
  /\ backoff = 0
  /\ delay = 0
  /\ table = [e \in EIDs |-> [present |-> FALSE]]
  /\ wall = 1
  /\ exposure = [e \in EIDs |-> 0]

Init ==
  /\ cfg \in Configs
  /\ simulation_enabled = FALSE
  /\ Blank

\* the call ends: return value "true"/"false", or an exception escapes ("raised")
Return(r) ==
  /\ pc' = "returned"
  /\ result' = r
  /\ rec' = NoRec
  /\ loc' = NoLoc

\* mutant: a record found in LEG_A_PLACED has its leg placed again
Dispatch_replacing(state) ==
  CASE state = PLANNED -> "mark_A"
    [] state = LEG_A_PLACED -> "place_A"
    [] state = LEG_A_FILLED -> "guard_B"
    [] state = LEG_B_PLACED -> "resume_B"
    [] OTHER -> "finish"

\* where execute_bracket goes for a record in the given state (the chain of
\* `if rec.state == ...` at lines 468, 510, 537, 584, 609)
Dispatch(state) ==
  CASE state = PLANNED -> "mark_A"
    [] state = LEG_A_PLACED -> "resume_A"
    [] state = LEG_A_FILLED -> "guard_B"
    [] state = LEG_B_PLACED -> "resume_B"
    [] OTHER -> "finish"

\* mutant: a failed upsert is swallowed and the call goes on with the record
\* it has in memory
Commit_swallowing(r, next) ==
  \/ /\ store' = upsert(store, args.eid, r, today)
     /\ hist' = Persisted(hist, args.eid, r)
     /\ rec' = upsert_row(store[args.eid], r, today)
     /\ journal' = Logged(journal, store[args.eid].state, r.state)
     /\ pc' = next
     /\ UNCHANGED <<loc, result>>
  \/ /\ rec' = r
     /\ pc' = next
     /\ UNCHANGED <<store, hist, loc, result, journal>>

\* self.store.upsert(r) followed by the code up to the next store write or
\* exchange call: the commit succeeds and the call goes on to `next`, or it
\* fails and the exception escapes execute_bracket with the table unchanged.
Commit(r, next) ==
  \/ /\ store' = upsert(store, args.eid, r, today)
     /\ hist' = Persisted(hist, args.eid, r)
     /\ rec' = upsert_row(store[args.eid], r, today)
     /\ journal' = Logged(journal, store[args.eid].state, r.state)
     /\ pc' = next
     /\ UNCHANGED <<loc, result>>
  \/ /\ Return("raised")
     /\ UNCHANGED <<store, hist, journal>>

\* a state change that ends the call: upsert, then `return value`
CommitAndReturn(r, value) ==
  \/ /\ store' = upsert(store, args.eid, r, today)
     /\ hist' = Persisted(hist, args.eid, r)
     /\ journal' = Logged(journal, store[args.eid].state, r.state)
     /\ Return(value)
  \/ /\ Return("raised")
     /\ UNCHANGED <<store, hist, journal>>

(* ---- execute_bracket, lines 433-465: gate, lookup, creation ---- *)
execute_bracket(e, est) ==
  /\ pc = "idle"
  /\ calls' = <<>>
  /\ args' = [eid |-> e, est |-> est, found |-> store[e].state]
  /\ UNCHANGED cfg
  /\ IF risk_gate_rejects(cfg, store, est, today)
     THEN /\ Return("false")
          /\ journal' = NoJournal
          /\ UNCHANGED <<store, hist, today>>
     ELSE IF store_get(store, e).state = ABSENT
     THEN \* the insert reads the clock again: the date may have changed since the gate
          \E day \in {today} \cup (IF today < MaxDay THEN {today + 1} ELSE {}) :
            /\ today' = day
            /\ \/ /\ store' = upsert(store, e, NewRecord(est, cfg.backend), day)
                  /\ hist' = Persisted(hist, e, NewRecord(est, cfg.backend))
                  /\ rec' = upsert_row(store[e], NewRecord(est, cfg.backend), day)
                  /\ journal' = Logged(NoJournal, ABSENT, PLANNED)
                  /\ pc' = Dispatch(PLANNED)
                  /\ loc' = NoLoc
                  /\ result' = "running"
               \/ /\ Return("raised")
                  /\ journal' = NoJournal
                  /\ UNCHANGED <<store, hist>>
     ELSE IF is_terminal(store_get(store, e).state)
     THEN /\ Return(IF store_get(store, e).state = DONE THEN "true" ELSE "false")
          /\ journal' = NoJournal
          /\ UNCHANGED <<store, hist, today>>
     ELSE /\ rec' = store_get(store, e)
          /\ pc' = Dispatch(store_get(store, e).state)
          /\ loc' = NoLoc
          /\ result' = "running"
          /\ journal' = NoJournal
          /\ UNCHANGED <<store, hist, today>>

(* ---- the leg executors ---- *)
\* id_kind returned by place_limit: BankrLegExecutor "job", CLOBLegExecutor "order"
id_kind_of(backend) == IF backend = "clob" THEN "order" ELSE "job"

\* The responses place_limit can return (an exception is a separate outcome).
\* Bankr: whatever the sidecar answers.  CLOB: DirectCLOBExecutor.place_limit
\* refuses live orders while TRADING_ENABLED is false, fabricates a dry-run
\* dict without an order id when dry_run, and otherwise posts the order.
place_limit(c) ==
  IF c.backend = "bankr"
  THEN {BankrFilledResp, BankrNotFilledResp}
  ELSE IF ~c.dry_run /\ ~c.trading_enabled THEN {}
  ELSE IF c.dry_run THEN {ClobDryRunResp}
  ELSE {ClobOrderResp, ClobNoIdResp}

\* mutant: the placer has no dry-run branch
place_limit_on_wire_always(c) == TRUE

\* Whether place_limit sends a request out of the process: BankrLegExecutor
\* posts the prompt to the sidecar whatever dry_run says (it forwards the
\* flag); DirectCLOBExecutor posts the order only past the kill switch and
\* the dry-run branch.
place_limit_on_wire(c) ==
  IF c.backend = "bankr" THEN TRUE ELSE ~c.dry_run /\ c.trading_enabled

\* The outcomes of confirm_filled: filled, the raw confirmation, whether the
\* placer cancelled the order itself, whether it queried the exchange.
confirm_filled(c, external_id, raw_place) ==
  IF c.backend = "bankr"
  THEN {[filled |-> looks_like_filled(raw_place), confirm |-> "place",
         cancelled |-> FALSE, wire |-> FALSE]}
  ELSE IF c.dry_run
  THEN {[filled |-> TRUE, confirm |-> "dry_run", cancelled |-> FALSE, wire |-> FALSE]}
  ELSE IF external_id = ""
  THEN {[filled |-> FALSE, confirm |-> "missing_order_id",
         cancelled |-> FALSE, wire |-> FALSE]}
  ELSE {[filled |-> TRUE, confirm |-> "filled", cancelled |-> FALSE, wire |-> TRUE],
        [filled |-> FALSE, confirm |-> "not_filled", cancelled |-> TRUE, wire |-> TRUE]}

\* wait_until_filled polls the exchange and may raise; the other branches cannot
confirm_may_raise(c, external_id) ==
  c.backend = "clob" /\ ~c.dry_run /\ external_id # ""

(* ---- record fields by leg ---- *)
RawJson(r, leg) == IF leg = "A" THEN r.leg_a_raw_json ELSE r.leg_b_raw_json
JobId(r, leg) == IF leg = "A" THEN r.leg_a_job_id ELSE r.leg_b_job_id
OrderId(r, leg) == IF leg = "A" THEN r.leg_a_order_id ELSE r.leg_b_order_id

SetRawJson(r, leg, j) ==
  IF leg = "A" THEN [r EXCEPT !.leg_a_raw_json = j] ELSE [r EXCEPT !.leg_b_raw_json = j]

\* `if id_kind == "job": rec.leg_x_job_id = ext  elif id_kind == "order": ...`
SetExternalId(r, leg, kind, ext) ==
  IF kind = "job"
  THEN (IF leg = "A" THEN [r EXCEPT !.leg_a_job_id = ext]
                     ELSE [r EXCEPT !.leg_b_job_id = ext])
  ELSE IF kind = "order"
  THEN (IF leg = "A" THEN [r EXCEPT !.leg_a_order_id = ext]
                     ELSE [r EXCEPT !.leg_b_order_id = ext])
  ELSE r

Falsy(x) == x \in {NoneId, ""}

\* `rec.leg_x_order_id or rec.leg_x_job_id or ""`
StoredExternalId(r, leg) ==
  IF ~Falsy(OrderId(r, leg)) THEN OrderId(r, leg)
  ELSE IF ~Falsy(JobId(r, leg)) THEN JobId(r, leg)
  ELSE ""

\* `json.loads(rec.leg_x_raw_json or "{}").get("place") or {}`
StoredRawPlace(r, leg) ==
  IF RawJson(r, leg).present THEN RawJson(r, leg).place ELSE EmptyResp

\* json.dumps({"place": raw_place}) and json.dumps({"place": .., "confirm": ..})
DumpPlace(raw_place) == [present |-> TRUE, place |-> raw_place, confirm |-> "absent"]
DumpPlaceConfirm(raw_place, raw_confirm) ==
  [present |-> TRUE, place |-> raw_place, confirm |-> raw_confirm]

Placed(h, e, leg) ==
  IF leg = "A" THEN [h EXCEPT ![e].placed_a = Bump(@)]
  ELSE [h EXCEPT ![e].placed_b = Bump(@)]

Confirmed(h, e, leg, filled) ==
  IF leg = "A" THEN [h EXCEPT ![e].a_fill_confirmed = @ \/ filled] ELSE h

(* ---- steps of execute_bracket shared by the two legs ---- *)
\* leg_executor.place_limit(...), then the assignments to rec (lines 472-488, 546-561)
PlaceStep(leg) ==
  /\ calls' = Append(calls, "place_" \o leg)
  /\ journal' = OnWire(journal, IF place_limit_on_wire(cfg) THEN 1 ELSE 0)
  /\ hist' = Placed(hist, args.eid, leg)
  /\ UNCHANGED <<cfg, others, store, args, today>>
  /\ \/ Return("raised")
     \/ \E resp \in place_limit(cfg) :
          /\ loc' = [loc EXCEPT !.ext = resp.id, !.raw_place = resp]
          /\ rec' = SetRawJson(SetExternalId(rec, leg, id_kind_of(cfg.backend), resp.id),
                               leg, DumpPlace(resp))
          /\ pc' = "save_place_" \o leg
          /\ UNCHANGED result

\* leg_executor.confirm_filled(...), then rec.leg_x_raw_json = {place, confirm}
ConfirmStep(leg, external_id, raw_place, next) ==
  /\ UNCHANGED <<cfg, others, store, args, today>>
  /\ \/ /\ confirm_may_raise(cfg, external_id)
        /\ calls' = Append(calls, "confirm_" \o leg)
        /\ journal' = OnWire(journal, 1)
        /\ UNCHANGED hist
        /\ Return("raised")
     \/ \E out \in confirm_filled(cfg, external_id, raw_place) :
          /\ calls' = IF out.cancelled
                      THEN calls \o <<"confirm_" \o leg, "cancel_" \o leg>>
                      ELSE Append(calls, "confirm_" \o leg)
          /\ journal' = OnWire(journal, (IF out.wire THEN 1 ELSE 0)
                                          + (IF out.cancelled THEN 1 ELSE 0))
          /\ hist' = Confirmed(hist, args.eid, leg, out.filled)
          /\ loc' = [loc EXCEPT !.ext = external_id, !.raw_place = raw_place,
                                !.filled = out.filled]
          /\ rec' = SetRawJson(rec, leg, DumpPlaceConfirm(raw_place, out.confirm))
          /\ pc' = next
          /\ UNCHANGED result

\* `if not filled: state = ABORTED; upsert; return False` else the next state
DecideStep(filled_state, next) ==
  /\ UNCHANGED <<cfg, others, args, calls, today>>
  /\ IF ~loc.filled
     THEN CommitAndReturn([rec EXCEPT !.state = ABORTED], "false")
     ELSE Commit([rec EXCEPT !.state = filled_state], next)


(* ---- LEG A, lines 467-534 ---- *)
\* mutant: the new state is not written before the placement
mark_leg_a_unsaved ==
  /\ pc = "mark_A"
  /\ rec' = [rec EXCEPT !.state = LEG_A_PLACED]
  /\ pc' = "place_A"
  /\ UNCHANGED <<cfg, others, store, args, loc, result, calls, hist, today, journal>>

\* lines 468-470: rec.state = LEG_A_PLACED; upsert
mark_leg_a ==
  /\ pc = "mark_A"
  /\ UNCHANGED <<cfg, others, args, calls, today>>
  /\ Commit([rec EXCEPT !.state = LEG_A_PLACED], "place_A")

\* lines 472-488
place_leg_a == pc = "place_A" /\ PlaceStep("A")

\* line 489: persist external ID immediately
save_place_leg_a ==
  /\ pc = "save_place_A"
  /\ UNCHANGED <<cfg, others, args, calls, today>>
  /\ Commit(rec, "confirm_A")

\* lines 491-499
confirm_leg_a ==
  pc = "confirm_A" /\ ConfirmStep("A", loc.ext, loc.raw_place, "save_confirm_A")

\* line 500
save_confirm_leg_a ==
  /\ pc = "save_confirm_A"
  /\ UNCHANGED <<cfg, others, args, calls, today>>
  /\ Commit(rec, "decide_A")

\* mutant: leg A counts as filled whatever the confirmation said
decide_leg_a_unchecked ==
  /\ pc = "decide_A"
  /\ UNCHANGED <<cfg, others, args, calls, today>>
  /\ Commit([rec EXCEPT !.state = LEG_A_FILLED], "guard_B")

\* lines 502-508
decide_leg_a == pc = "decide_A" /\ DecideStep(LEG_A_FILLED, "guard_B")

\* lines 510-528: resume path, confirm the stored id without placing again
resume_leg_a ==
  /\ pc = "resume_A"
  /\ ConfirmStep("A", StoredExternalId(rec, "A"), StoredRawPlace(rec, "A"),
                 "resume_decide_A")

\* mutant: a resumed leg A that did not fill is sent back to PLANNED
resume_decide_leg_a_retrying ==
  /\ pc = "resume_decide_A"
  /\ UNCHANGED <<cfg, others, args, calls, today>>
  /\ IF ~loc.filled
     THEN CommitAndReturn([rec EXCEPT !.state = PLANNED], "false")
     ELSE Commit([rec EXCEPT !.state = LEG_A_FILLED], "guard_B")

\* lines 529-534
resume_decide_leg_a == pc = "resume_decide_A" /\ DecideStep(LEG_A_FILLED, "guard_B")

(* ---- LEG B, lines 536-607 ---- *)
\* mutant: leg B is started however long leg A took
guard_leg_b_unguarded ==
  /\ pc = "guard_B"
  /\ UNCHANGED <<cfg, others, args, calls, today>>
  /\ Commit([rec EXCEPT !.state = LEG_B_PLACED], "place_B")

\* lines 537-544: the unhedged guard, then rec.state = LEG_B_PLACED; upsert
guard_leg_b ==
  /\ pc = "guard_B"
  /\ UNCHANGED <<cfg, others, args, calls, today>>
  /\ IF loc.elapsed > max_unhedged_seconds
     THEN CommitAndReturn([rec EXCEPT !.state = ABORTED], "false")
     ELSE Commit([rec EXCEPT !.state = LEG_B_PLACED], "place_B")

\* lines 546-561
place_leg_b == pc = "place_B" /\ PlaceStep("B")

\* mutant: leg B's id and blob are not written before the confirmation
save_place_leg_b_skipped ==
  /\ pc = "save_place_B"
  /\ pc' = "confirm_B"
  /\ UNCHANGED <<cfg, others, store, args, rec, loc, result, calls, hist, today, journal>>

\* line 562
save_place_leg_b ==
  /\ pc = "save_place_B"
  /\ UNCHANGED <<cfg, others, args, calls, today>>
  /\ Commit(rec, "confirm_B")

\* lines 564-572
confirm_leg_b ==
  pc = "confirm_B" /\ ConfirmStep("B", loc.ext, loc.raw_place, "save_confirm_B")

\* line 573
save_confirm_leg_b ==
  /\ pc = "save_confirm_B"
  /\ UNCHANGED <<cfg, others, args, calls, today>>
  /\ Commit(rec, "decide_B")

\* mutant: leg B counts as filled whatever the confirmation said
decide_leg_b_unchecked ==
  /\ pc = "decide_B"
  /\ UNCHANGED <<cfg, others, args, calls, today>>
  /\ Commit([rec EXCEPT !.state = HEDGED_FILLED], "finish")

\* lines 575-582
decide_leg_b == pc = "decide_B" /\ DecideStep(HEDGED_FILLED, "finish")

\* lines 584-601
resume_leg_b ==
  /\ pc = "resume_B"
  /\ ConfirmStep("B", StoredExternalId(rec, "B"), StoredRawPlace(rec, "B"),
                 "resume_decide_B")

\* lines 602-607
resume_decide_leg_b == pc = "resume_decide_B" /\ DecideStep(HEDGED_FILLED, "finish")

\* lines 609-614: HEDGED_FILLED -> DONE and return True, else return False
finish ==
  /\ pc = "finish"
  /\ UNCHANGED <<cfg, others, args, calls, today>>
  /\ IF rec.state = HEDGED_FILLED
     THEN CommitAndReturn([rec EXCEPT !.state = DONE], "true")
     ELSE Return("false") /\ UNCHANGED <<store, hist, journal>>

(* ---- the environment ---- *)
\* the scanner takes the return value (btc15_scanner.py, `ok = executor.execute_bracket(`)
\* or handles the exception; the next call starts from there
scanner_receives ==
  /\ pc = "returned"
  /\ pc' = "idle"
  /\ result' = "none"
  /\ args' = NoArgs
  /\ calls' = <<>>
  /\ journal' = NoJournal
  /\ UNCHANGED <<cfg, others, store, rec, loc, hist, today>>

\* the process dies inside execute_bracket and is restarted; the table keeps
\* its committed rows, everything in memory is lost
Crash ==
  /\ pc \notin {"idle", "returned"}
  /\ pc' = "idle"
  /\ result' = "none"
  /\ args' = NoArgs
  /\ calls' = <<>>
  /\ rec' = NoRec
  /\ loc' = NoLoc
  /\ journal' = NoJournal
  /\ UNCHANGED <<cfg, others, store, hist, today>>

\* time.time() is read at the start of the call and at the unhedged guard
\* (lines 465 and 538): time passes between the two reads
TimedPCs == {"mark_A", "place_A", "save_place_A", "confirm_A", "save_confirm_A",
             "decide_A", "resume_A", "resume_decide_A", "guard_B"}

Tick ==
  /\ pc \in TimedPCs
  /\ loc.elapsed < MaxElapsed
  /\ loc' = [loc EXCEPT !.elapsed = @ + 1]
  /\ UNCHANGED <<cfg, others, store, pc, args, rec, result, calls, hist, today, journal>>

\* the UTC date (_utc_today_yyyy_mm_dd) changes between calls
NextDay ==
  /\ pc = "idle"
  /\ today < MaxDay
  /\ today' = today + 1
  /\ UNCHANGED <<cfg, others, store, pc, args, rec, loc, result, calls, hist, journal>>

\* execute_bracket called directly (the tests, or any caller other than the scanner)
Call == \E e \in EIDs, est \in Estimates : execute_bracket(e, est) /\ UNCHANGED others

Next ==
  \/ Call
  \/ mark_leg_a \/ place_leg_a \/ save_place_leg_a \/ confirm_leg_a
  \/ save_confirm_leg_a \/ decide_leg_a \/ resume_leg_a \/ resume_decide_leg_a
  \/ guard_leg_b \/ place_leg_b \/ save_place_leg_b \/ confirm_leg_b
  \/ save_confirm_leg_b \/ decide_leg_b \/ resume_leg_b \/ resume_decide_leg_b
  \/ finish
  \/ scanner_receives \/ Crash \/ Tick \/ NextDay

Spec == Init /\ [][Next]_vars

(***************************************************************************)
(* BTC15OptimizedScanner (btc15_scanner.py): step 5 of scan() and          *)
(* _execute_bracket, driving the executor above                            *)
(***************************************************************************)
\* one market; the execution id is
\* f"btc15:{slug}:{tok0}:{tok1}:{int(target_shares * 1000)}", so the two ids
\* are the same market at two sizes
Slugs == {"m1"}
Shares == {1, 2}
exec_id(slug, shares) == IF shares = 1 THEN "e1" ELSE "e2"
slug_of(e) == "m1"

\* opp.total_cost = up_cost + down_cost of filling target_shares: it grows
\* with the size
total_cost(shares) == shares

\* auto_execute_threshold_cents (default 2.0) and the expected edges offered,
\* in cents: below, at and above the threshold
auto_execute_threshold == 2
Edges == {1, 2, 3}

\* scan(): sim_enabled = _env_bool("SIMULATION_ENABLED") and bool(BANKR_DRY_RUN)
sim_enabled(c, simulation) == simulation /\ c.dry_run

\* mutant: an edge equal to the threshold is not auto-executed
route_above_only(edge, sim) ==
  IF edge > auto_execute_threshold THEN "AUTO_EXECUTE"
  ELSE IF sim THEN "SIM_EXECUTE"
  ELSE "EDGE_TOO_SMALL"

\* step 5: `if expected_edge >= self.auto_execute_threshold: ... elif
\* sim_enabled: ... else: ...`
route(edge, sim) ==
  IF edge >= auto_execute_threshold THEN "AUTO_EXECUTE"
  ELSE IF sim THEN "SIM_EXECUTE"
  ELSE "EDGE_TOO_SMALL"

\* One fillable opportunity goes through the open-position skip (line 292),
\* the ACTIONABLE decision and step 5.  EDGE_TOO_SMALL prompts Bankr and calls
\* no executor; the other two routes enter _execute_bracket, which refuses
\* with KILL_SWITCH or calls executor.execute_bracket.
scan_market(slug, shares, edge) ==
  /\ pc = "idle"
  /\ slug \notin active_positions
  /\ LET r == route(edge, sim_enabled(cfg, simulation_enabled))
         codes == IF r = "AUTO_EXECUTE" THEN <<"ACTIONABLE">> ELSE <<"ACTIONABLE", r>>
     IN IF r = "EDGE_TOO_SMALL"
        THEN /\ opp' = [slug |-> slug, edge |-> edge, codes |-> codes, handed |-> FALSE]
             /\ pc' = "returned"
             /\ result' = "prompted"
             /\ UNCHANGED <<cfg, store, args, rec, loc, calls, hist, today, journal,
                            active_positions, simulation_enabled, book_vars, ws_vars, side_vars>>
        ELSE IF kill_switch_blocks(cfg)
        THEN /\ opp' = [slug |-> slug, edge |-> edge,
                        codes |-> Append(codes, "KILL_SWITCH"), handed |-> FALSE]
             /\ pc' = "returned"
             /\ result' = "blocked"
             /\ UNCHANGED <<cfg, store, args, rec, loc, calls, hist, today, journal,
                            active_positions, simulation_enabled, book_vars, ws_vars, side_vars>>
        ELSE /\ execute_bracket(exec_id(slug, shares), total_cost(shares))
             /\ opp' = [slug |-> slug, edge |-> edge, codes |-> codes, handed |-> TRUE]
             /\ UNCHANGED <<active_positions, simulation_enabled, book_vars, ws_vars, side_vars>>

\* lines 624-647: `if ok: self._active_positions[slug] = {...}`; an exception
\* of the executor is caught and counts as False
scanner_takes_result ==
  /\ pc = "returned"
  /\ active_positions' = IF result = "true" THEN active_positions \cup {opp.slug}
                         ELSE active_positions
  /\ opp' = NoOpp
  /\ pc' = "idle"
  /\ result' = "none"
  /\ args' = NoArgs
  /\ calls' = <<>>
  /\ journal' = NoJournal
  /\ UNCHANGED <<cfg, store, rec, loc, hist, today, simulation_enabled, book_vars, ws_vars, side_vars>>

\* The process stops (crash or operator) and starts again: the table keeps
\* its rows, _active_positions and the running call are lost, and
\* TRADING_ENABLED is read afresh from the environment, where the operator
\* may have changed it (nothing in the program writes it).
restart(enabled) ==
  /\ pc # "idle" \/ active_positions # {} \/ enabled # cfg.trading_enabled
  /\ cfg' = [cfg EXCEPT !.trading_enabled = enabled]
  /\ pc' = "idle"
  /\ result' = "none"
  /\ args' = NoArgs
  /\ calls' = <<>>
  /\ rec' = NoRec
  /\ loc' = NoLoc
  /\ journal' = NoJournal
  /\ active_positions' = {}
  /\ opp' = NoOpp
  /\ UNCHANGED <<store, hist, today, simulation_enabled, book_vars, ws_vars, side_vars>>

\* the configurations the scanner is run with: live on both backends and dry
\* run, each with its SIMULATION_ENABLED
ScannerSetups ==
  { <<Cfg(FALSE, TRUE, 2, 0, 0, "bankr"), FALSE>>,
    <<Cfg(FALSE, TRUE, 1, 0, 0, "clob"), TRUE>>,
    <<Cfg(TRUE, FALSE, 1, 0, 0, "clob"), TRUE>> }

ScannerInit ==
  /\ \E setup \in ScannerSetups :
       /\ cfg = setup[1]
       /\ simulation_enabled = setup[2]
  /\ Blank

Scan ==
  \E slug \in Slugs, shares \in Shares, edge \in Edges :
    scan_market(slug, shares, edge)

\* the kill switch only matters to live trading
Restart ==
  \E enabled \in (IF cfg.dry_run THEN {cfg.trading_enabled} ELSE BOOLEAN) :
    restart(enabled)

ScannerNext ==
  \/ Scan
  \/ mark_leg_a \/ place_leg_a \/ save_place_leg_a \/ confirm_leg_a
  \/ save_confirm_leg_a \/ decide_leg_a \/ resume_leg_a \/ resume_decide_leg_a
  \/ guard_leg_b \/ place_leg_b \/ save_place_leg_b \/ confirm_leg_b
  \/ save_confirm_leg_b \/ decide_leg_b \/ resume_leg_b \/ resume_decide_leg_b
  \/ finish
  \/ scanner_takes_result \/ Restart \/ Tick \/ NextDay

\* what the running program does by itself: the scan loop keeps evaluating
\* opportunities and a call in progress keeps going
ScannerProgress ==
  \/ Scan
  \/ mark_leg_a \/ place_leg_a \/ save_place_leg_a \/ confirm_leg_a
  \/ save_confirm_leg_a \/ decide_leg_a \/ resume_leg_a \/ resume_decide_leg_a
  \/ guard_leg_b \/ place_leg_b \/ save_place_leg_b \/ confirm_leg_b
  \/ save_confirm_leg_b \/ decide_leg_b \/ resume_leg_b \/ resume_decide_leg_b
  \/ finish
  \/ scanner_takes_result

ScannerSpec == ScannerInit /\ [][ScannerNext]_vars /\ WF_vars(ScannerProgress)

(***************************************************************************)
(* BTC15WSBookCache (btc15_wss.py): the book snapshot kept from the market *)
(* channel                                                                 *)
(***************************************************************************)
\* Prices and sizes are the floats _safe_float parses out of the message,
\* here in cents and in shares; the feed offers bids at 0.40 and 0.41 and
\* asks at 0.55 and 0.60 for token T, one level a side for token U.
BidPrices(t) == IF t = "T" THEN {40, 41} ELSE {40}
AskPrices(t) == IF t = "T" THEN {55, 60} ELSE {60}
Sizes(t) == IF t = "T" THEN {5, 8} ELSE {10}

Level(p, sz) == [price |-> p, size |-> sz]
Change(t, side, p, sz) == [asset_id |-> t, side |-> side, price |-> p, size |-> sz]

\* the ladders a `book` message carries: none, one or two levels
Ladders(prices) ==
  {<<>>} \cup {<<Level(p, 10)>> : p \in prices}
         \cup {<<Level(pq[1], 10), Level(pq[2], 5)>> :
                 pq \in {x \in prices \X prices : x[1] # x[2]}}

BookMsg(t, bids, asks) ==
  [event_type |-> "book", asset_id |-> t, bids |-> bids, asks |-> asks]
PriceChangeMsg(changes) == [event_type |-> "price_change", price_changes |-> changes]

\* the entries a `price_change` message carries: a size, or 0 to remove
Changes ==
  UNION {{Change(t, "BUY", p, sz) : p \in BidPrices(t), sz \in Sizes(t) \cup {0}}
           \cup {Change(t, "SELL", p, sz) : p \in AskPrices(t), sz \in Sizes(t) \cup {0}}
         : t \in Tokens}

ExampleSnapshot == BookMsg("T", <<Level(40, 10)>>, <<Level(60, 10)>>)
ExampleChanges ==
  <<Change("T", "BUY", 41, 5), Change("T", "BUY", 40, 0),
    Change("T", "SELL", 60, 0), Change("T", "SELL", 55, 8)>>

Messages ==
  {BookMsg(t, b, a) : t \in {"T"}, b \in Ladders(BidPrices("T")),
                      a \in Ladders(AskPrices("T"))}
  \cup {BookMsg(t, b, a) : t \in {"U"}, b \in Ladders(BidPrices("U")),
                           a \in Ladders(AskPrices("U"))}
  \cup {BookMsg("", <<Level(40, 10)>>, <<>>),
        BookMsg("T", <<Level(40, 0), Level(41, 5)>>, <<Level(55, 8), Level(55, 5)>>),
        [event_type |-> "last_trade_price", asset_id |-> "T"]}
  \cup {PriceChangeMsg(<<>>)}
  \cup {PriceChangeMsg(<<c>>) : c \in Changes}
  \cup {PriceChangeMsg(ExampleChanges),
        PriceChangeMsg(<<Change("T", "BUY", 40, 5), Change("T", "BUY", 40, 0)>>),
        PriceChangeMsg(<<Change("T", "SELL", 55, 0), Change("U", "SELL", 60, 10),
                         Change("T", "SELL", 55, 8)>>)}

\* d[k] = v and d.pop(k, None) on a dict
dict_set(d, k, v) == [x \in (DOMAIN d) \cup {k} |-> IF x = k THEN v ELSE d[x]]
dict_pop(d, k) == [x \in (DOMAIN d) \ {k} |-> d[x]]

\* lines 92-102: `for lvl in bids: if p > 0 and s > 0: bids_by_price[p] = s`
RECURSIVE levels_by_price(_, _)
levels_by_price(levels, d) ==
  IF levels = <<>> THEN d
  ELSE levels_by_price(Tail(levels),
         IF Head(levels).price > 0 /\ Head(levels).size > 0
         THEN dict_set(d, Head(levels).price, Head(levels).size)
         ELSE d)

\* mutant: a `book` message is merged into the ladders the token already has
book_state_merged(old, msg) ==
  [present |-> TRUE,
   bids_by_price |-> levels_by_price(msg.bids, old.bids_by_price),
   asks_by_price |-> levels_by_price(msg.asks, old.asks_by_price)]

\* lines 89-113: the _TokenBookState a `book` message puts in place of the old one
book_state(old, msg) ==
  [present |-> TRUE,
   bids_by_price |-> levels_by_price(msg.bids, EmptyDict),
   asks_by_price |-> levels_by_price(msg.asks, EmptyDict)]

\* lines 134-143: one entry applied to the token's state
price_change_entry(st, ch) ==
  IF ch.side = "BUY"
  THEN [st EXCEPT !.bids_by_price = IF ch.size <= 0 THEN dict_pop(@, ch.price)
                                    ELSE dict_set(@, ch.price, ch.size)]
  ELSE IF ch.side = "SELL"
  THEN [st EXCEPT !.asks_by_price = IF ch.size <= 0 THEN dict_pop(@, ch.price)
                                    ELSE dict_set(@, ch.price, ch.size)]
  ELSE st

\* lines 121-147: `for ch in price_changes`, on the books and the dirty set;
\* a token without state gets an empty one first
RECURSIVE price_changes_applied(_, _)
price_changes_applied(cache, changes) ==
  IF changes = <<>> THEN cache
  ELSE LET ch == Head(changes)
           st == [cache.books[ch.asset_id] EXCEPT !.present = TRUE]
       IN price_changes_applied(
            IF ch.asset_id = "" THEN cache
            ELSE [books |-> [cache.books EXCEPT ![ch.asset_id] = price_change_entry(st, ch)],
                  dirty |-> cache.dirty \cup {ch.asset_id}],
            Tail(changes))

\* the tokens whose book a message writes to
written_by(msg) ==
  IF msg.event_type = "book" THEN {msg.asset_id} \ {""}
  ELSE IF msg.event_type = "price_change"
  THEN {msg.price_changes[i].asset_id : i \in DOMAIN msg.price_changes} \ {""}
  ELSE {}

\* BTC15WSBookCache.apply_market_event(msg); the writes to _books and to
\* _dirty_token_ids are made under self._lock, in one step
apply_market_event(msg) ==
  /\ last_msg' = msg
  /\ written' = written \cup written_by(msg)
  /\ drained' = NoDrain
  /\ last_ts' = [t \in Tokens |-> IF t \in written_by(msg) THEN clock ELSE last_ts[t]]
  /\ IF msg.event_type = "book"
     THEN IF msg.asset_id = ""
          THEN UNCHANGED <<books, dirty_token_ids, update_event>>
          ELSE /\ books' = [books EXCEPT ![msg.asset_id] = book_state(@, msg)]
               /\ dirty_token_ids' = dirty_token_ids \cup {msg.asset_id}
               /\ update_event' = TRUE
     ELSE IF msg.event_type = "price_change"
     THEN LET cache == price_changes_applied([books |-> books, dirty |-> dirty_token_ids],
                                             msg.price_changes)
          IN /\ books' = cache.books
             /\ dirty_token_ids' = cache.dirty
             /\ update_event' = TRUE
     ELSE UNCHANGED <<books, dirty_token_ids, update_event>>
  /\ UNCHANGED <<exec_vars, scanner_vars, side_vars, ws_vars>>

\* mutant: the drain returns the set and does not clear it
drain_dirty_token_ids_keeping ==
  /\ drained' = [returned |-> TRUE, tokens |-> dirty_token_ids]
  /\ written' = {}
  /\ last_msg' = NoMsg
  /\ UNCHANGED <<books, dirty_token_ids, update_event, last_ts, exec_vars, scanner_vars, side_vars, ws_vars>>

\* BTC15WSBookCache.drain_dirty_token_ids(): copy and clear under self._lock
drain_dirty_token_ids ==
  /\ drained' = [returned |-> TRUE, tokens |-> dirty_token_ids]
  /\ dirty_token_ids' = {}
  /\ written' = {}
  /\ last_msg' = NoMsg
  /\ UNCHANGED <<books, update_event, last_ts, exec_vars, scanner_vars, side_vars, ws_vars>>

\* BTC15WSBookCache.wait_for_update(timeout): clears the event when it was
\* set, and times out with the event still clear when it was not
wait_for_update ==
  /\ update_event' = FALSE
  /\ last_msg' = NoMsg
  /\ drained' = NoDrain
  /\ UNCHANGED <<books, dirty_token_ids, written, last_ts, exec_vars, scanner_vars, side_vars, ws_vars>>

BookInit ==
  /\ cfg = Cfg(TRUE, FALSE, 1, 0, 0, "clob")
  /\ simulation_enabled = FALSE
  /\ Blank

ApplyMarketEvent == \E msg \in Messages : apply_market_event(msg)

BookNext == ApplyMarketEvent \/ drain_dirty_token_ids \/ wait_for_update

BookSpec == BookInit /\ [][BookNext]_vars

\* mutant: the bids are sorted by ascending price
bids_sort_key_ascending(p) == p

\* line 53: `sorted(self.bids_by_price.items(), key=lambda x: -x[0])`
bids_sort_key(p) == 0 - p

\* line 54: `sorted(self.asks_by_price.items(), key=lambda x: x[0])`
asks_sort_key(p) == p

RECURSIVE sorted_bids(_, _)
sorted_bids(d, prices) ==
  IF prices = {} THEN <<>>
  ELSE LET p == CHOOSE x \in prices : \A y \in prices : bids_sort_key(x) <= bids_sort_key(y)
       IN <<Level(p, d[p])>> \o sorted_bids(d, prices \ {p})

RECURSIVE sorted_asks(_, _)
sorted_asks(d, prices) ==
  IF prices = {} THEN <<>>
  ELSE LET p == CHOOSE x \in prices : \A y \in prices : asks_sort_key(x) <= asks_sort_key(y)
       IN <<Level(p, d[p])>> \o sorted_asks(d, prices \ {p})

\* lines 53-54: `if p > 0 and s > 0`
exported(d) == {p \in DOMAIN d : p > 0 /\ d[p] > 0}

\* _TokenBookState.to_orderbook(): the MarketOrderbook handed to the scanner
to_orderbook(st) ==
  [bids |-> sorted_bids(st.bids_by_price, exported(st.bids_by_price)),
   asks |-> sorted_asks(st.asks_by_price, exported(st.asks_by_price))]

\* what the socket may carry besides the well-formed feed: levels in any
\* order, bids at or above the asks, negative prices
RawMessages ==
  {BookMsg("T", b, a) :
     b \in {<<>>, <<Level(40, 10), Level(41, 5)>>, <<Level(60, 10)>>,
            <<Level(0 - 5, 10), Level(40, 10)>>},
     a \in {<<>>, <<Level(60, 10), Level(55, 8)>>, <<Level(55, 10)>>}}
  \cup {PriceChangeMsg(<<Change("T", "BUY", p, sz)>>) : p \in {40, 41, 60, 0 - 5}, sz \in {0, 5}}
  \cup {PriceChangeMsg(<<Change("T", "SELL", p, sz)>>) : p \in {55, 60, 0 - 5}, sz \in {0, 8}}
  \cup {BookMsg("U", <<Level(40, 10)>>, <<Level(60, 10)>>),
        PriceChangeMsg(<<Change("U", "BUY", 60, 10)>>)}

ApplyRawMarketEvent == \E msg \in RawMessages : apply_market_event(msg)

RawFeedNext == ApplyRawMarketEvent \/ drain_dirty_token_ids \/ wait_for_update

RawFeedSpec == BookInit /\ [][RawFeedNext]_vars

(***************************************************************************)
(* CLOBMarketWSSubscriber (btc15_wss.py): the socket thread, stop(), and   *)
(* the scanner thread blocked in wait_for_update                           *)
(***************************************************************************)
\* CLOBMarketWSSubscriber.start(asset_ids) and on_open: _stop is cleared, the
\* thread runs and the socket opens
start ==
  /\ ~connected
  /\ stop_set' = FALSE
  /\ connected' = TRUE
  /\ stop_saw_waiter' = FALSE
  /\ UNCHANGED <<exec_vars, scanner_vars, side_vars, book_vars, waiter>>

\* the messages the socket delivers in this specification
SocketMessages ==
  {m \in Messages : m.event_type = "book" /\ m.asset_id = "U"}
    \cup {ExampleSnapshot, PriceChangeMsg(ExampleChanges)}

\* on_message(ws, message): only an open socket delivers
on_message == \E msg \in SocketMessages : connected /\ apply_market_event(msg)

\* CLOBMarketWSSubscriber.stop(): `self._stop.set()` and `self._ws.close()`
stop ==
  /\ stop_set' = TRUE
  /\ connected' = FALSE
  /\ stop_saw_waiter' = (waiter = "blocked")
  /\ UNCHANGED <<exec_vars, scanner_vars, side_vars, book_vars, waiter>>

\* wait_for_update, line 171: the scanner thread enters
\* `self._update_event.wait(timeout=timeout)`
wait_enter ==
  /\ waiter # "blocked"
  /\ waiter' = "blocked"
  /\ UNCHANGED <<exec_vars, scanner_vars, side_vars, book_vars, stop_set, connected, stop_saw_waiter>>

\* lines 171-174: the event is set, the wait returns True and clears it
wait_signaled ==
  /\ waiter = "blocked"
  /\ update_event
  /\ update_event' = FALSE
  /\ waiter' = "signaled"
  /\ stop_saw_waiter' = FALSE
  /\ UNCHANGED <<exec_vars, scanner_vars, side_vars, books, dirty_token_ids, last_msg, written,
                 drained, last_ts, stop_set, connected>>

\* lines 171-174: the timeout expires with the event clear, the wait returns False
wait_timed_out ==
  /\ waiter = "blocked"
  /\ ~update_event
  /\ waiter' = "timed_out"
  /\ stop_saw_waiter' = FALSE
  /\ UNCHANGED <<exec_vars, scanner_vars, side_vars, book_vars, stop_set, connected>>

StopNext == start \/ on_message \/ stop \/ wait_enter \/ wait_signaled \/ wait_timed_out

\* a set event wakes the waiter, and the timeout is finite
StopSpec ==
  BookInit /\ [][StopNext]_vars /\ WF_vars(wait_signaled) /\ WF_vars(wait_timed_out)

(***************************************************************************)
(* BTC15OptimizedScanner.scan, step 3 (btc15_scanner.py 312-331): where    *)
(* the books of a bracket come from                                        *)
(***************************************************************************)
MaxClock == 3

\* the freshness budget of a streaming snapshot, in clock ticks
FreshnessBudget == 1

\* the two tokens of the bracket: market.token_ids[0] and market.token_ids[1]
up_token_id == "T"
down_token_id == "U"

\* BTC15WSBookCache.get_orderbook(token_id) is not None
has_orderbook(t) == books[t].present

\* BTC15WSBookCache.get_bracket(up, down) is not None: a MarketOrderbook is
\* always truthy, so both snapshots existing is all that is asked
has_bracket(up, down) == has_orderbook(up) /\ has_orderbook(down)

Age(t) == clock - last_ts[t]
OlderAge(up, down) == IF Age(up) >= Age(down) THEN Age(up) ELSE Age(down)

\* lines 312-331: the streaming snapshot when get_bracket gives one, the REST
\* fetch (which may come back empty) when it does not
acquire_books(rest_ok) ==
  /\ book_source' =
       IF has_bracket(up_token_id, down_token_id)
       THEN [source |-> "wss", age |-> OlderAge(up_token_id, down_token_id)]
       ELSE IF rest_ok THEN [source |-> "rest", age |-> 0]
       ELSE [source |-> "empty", age |-> 0]
  /\ UNCHANGED <<exec_vars, scanner_vars, book_vars, ws_vars, fn_vars, late_vars, clock>>

AcquireBooks == \E rest_ok \in BOOLEAN : acquire_books(rest_ok)

ClockTick ==
  /\ clock < MaxClock
  /\ clock' = clock + 1
  /\ UNCHANGED <<exec_vars, scanner_vars, book_vars, ws_vars, fn_vars, late_vars, book_source>>

ApplySocketMessage == \E msg \in SocketMessages : apply_market_event(msg)

SourceNext == ApplySocketMessage \/ ClockTick \/ AcquireBooks

SourceSpec == BookInit /\ [][SourceNext]_vars

(***************************************************************************)
(* The tradeable window (btc15_cache.py 145-154, btc15_scanner.py 144-188) *)
(***************************************************************************)
\* time in units of 30 seconds
MaxNow == 32

\* `2 <= v.minutes_to_expiry <= 14` and no_trade_last_seconds (default 90)
tradeable_min_minutes == 4
tradeable_max_minutes == 28
no_trade_last_seconds == 3

\* BTC15ActiveSetCache._markets: slug -> end_date
end_date == [m \in {"m1", "m2"} |-> IF m = "m1" THEN 30 ELSE 10]

\* an Optional[float] read from the environment
None == [set |-> FALSE, value |-> 0]
Some(v) == [set |-> TRUE, value |-> v]

\* BTC15_TRADEABLE_SOURCE, BTC15_TRADEABLE_MIN_MINUTES, BTC15_TRADEABLE_MAX_MINUTES
WindowEnv(source, min_min, max_min) == [source |-> source, min_min |-> min_min, max_min |-> max_min]
WindowEnvs ==
  {WindowEnv("cache", None, None), WindowEnv("cache", Some(2), None),
   WindowEnv("cache", None, Some(28)), WindowEnv("active", None, None)}

\* BTC15MarketInfo.minutes_to_expiry and seconds_to_expiry: never below 0
seconds_to_expiry(m, now) == IF end_date[m] - now > 0 THEN end_date[m] - now ELSE 0
minutes_to_expiry(m, now) == seconds_to_expiry(m, now)
is_expired(m, now) == minutes_to_expiry(m, now) <= 0

\* BTC15ActiveSetCache.active_markets and tradeable_markets
active_markets(now) == {m \in DOMAIN end_date : ~is_expired(m, now)}
tradeable_markets(now) ==
  {m \in DOMAIN end_date :
     /\ tradeable_min_minutes <= minutes_to_expiry(m, now)
     /\ minutes_to_expiry(m, now) <= tradeable_max_minutes
     /\ seconds_to_expiry(m, now) > no_trade_last_seconds}

\* scanner lines 146-153: either override turns the source "cache" into "active"
tradeable_source(env) ==
  IF (env.min_min.set \/ env.max_min.set) /\ env.source = "cache" THEN "active" ELSE env.source

\* BTC15OptimizedScanner._select_tradeable_markets()
select_tradeable(env, now) ==
  IF tradeable_source(env) = "cache" THEN tradeable_markets(now)
  ELSE {m \in active_markets(now) :
          /\ ~(minutes_to_expiry(m, now) <= 0)
          /\ ~(env.min_min.set /\ minutes_to_expiry(m, now) < env.min_min.value)
          /\ ~(env.max_min.set /\ minutes_to_expiry(m, now) > env.max_min.value)}

SelectTradeable ==
  \E env \in WindowEnvs, now \in 0..MaxNow :
    /\ input' = [fn |-> "select_tradeable", env |-> env, now |-> now]
    /\ output' = [fn |-> "select_tradeable", markets |-> select_tradeable(env, now)]
    /\ UNCHANGED <<exec_vars, scanner_vars, book_vars, ws_vars, source_vars, late_vars>>

WindowSpec == BookInit /\ [][SelectTradeable]_vars

(***************************************************************************)
(* The market catalog (btc15_cache.py 37-85, 305-353) and the scanner's    *)
(* token id check (btc15_scanner.py 301-310)                               *)
(***************************************************************************)
\* items of a token list as Gamma sends them: an id, an id in quotes, an
\* empty or blank string, a null
NULL == "<null>"
Items == {"123", "456", "\"789\"", "", " ", NULL}

\* `str(item).strip().strip('"')`
strip(tok) == IF tok \in {"", " "} THEN "" ELSE IF tok = "\"789\"" THEN "789" ELSE tok

ItemLists ==
  {<<>>} \cup {<<a>> : a \in {"123", ""}}
         \cup {<<a, b>> : a \in {"123", "", NULL}, b \in {"456", "\"789\"", " "}}

\* the values of `clobTokenIds`: missing, a str that json.loads decodes to a
\* list, to null or to a str, a str that does not decode, a list, a scalar
RawTokenIds ==
  {[kind |-> "None"], [kind |-> "json_null"]}
  \cup {[kind |-> "json_list", items |-> l] : l \in ItemLists}
  \cup {[kind |-> k, token |-> a] : k \in {"json_str", "undecodable", "scalar"}, a \in {"123", " "}}
  \cup {[kind |-> "list", items |-> l] : l \in ItemLists}

\* lines 73-80: the items of a list that are not None and not empty once stripped
RECURSIVE usable_items(_)
usable_items(items) ==
  IF items = <<>> THEN <<>>
  ELSE IF Head(items) = NULL \/ strip(Head(items)) = "" THEN usable_items(Tail(items))
  ELSE <<strip(Head(items))>> \o usable_items(Tail(items))

\* normalize_token_ids(value)
normalize_token_ids(value) ==
  IF value.kind \in {"None", "json_null"} THEN <<>>
  ELSE IF value.kind \in {"json_list", "list"} THEN usable_items(value.items)
  ELSE IF strip(value.token) = "" THEN <<>>
  ELSE <<strip(value.token)>>

\* BTC15ActiveSetCache._fetch_market_details(event), and refresh caching what
\* it returns: None without a market or a readable endDate; with fewer than
\* two token ids the ids become "0", "1", ... one per outcome
market_details(m) ==
  LET ids == normalize_token_ids(m.clobTokenIds)
  IN IF ~m.found \/ ~m.endDate_ok
     THEN [cached |-> FALSE, token_ids |-> <<>>]
     ELSE [cached |-> TRUE,
           token_ids |-> IF Len(ids) < 2
                         THEN [i \in 1..Len(m.outcomes) |-> ToString(i - 1)]
                         ELSE ids]

MarketRecords ==
  [found : BOOLEAN, endDate_ok : BOOLEAN, clobTokenIds : RawTokenIds,
   outcomes : {<<>>, <<"Up">>, <<"Up", "Down">>}]

\* a market record goes through the catalog, and a scan looks at it
\* (scanner lines 301-321: books are fetched when len(token_ids) >= 2)
CatalogMarket ==
  \E m \in MarketRecords :
    /\ input' = [fn |-> "market_details", m |-> m]
    /\ output' = [fn |-> "market_details",
                  cached |-> market_details(m).cached,
                  token_ids |-> market_details(m).token_ids,
                  books_fetched |-> market_details(m).cached /\ Len(market_details(m).token_ids) >= 2]
    /\ UNCHANGED <<exec_vars, scanner_vars, book_vars, ws_vars, source_vars, late_vars>>

CatalogSpec == BookInit /\ [][CatalogMarket]_vars

(***************************************************************************)
(* The evaluator (btc15_clob.py 65-89, 191-230)                            *)
(***************************************************************************)
\* `for _ in range(20)`
Iterations == 20

\* Sizes are counted in the smallest step the bisection can reach, the
\* 2^Iterations-th part of its upper bound `max_usdc / 0.3`; one share is
\* 2^13 such steps, so the bound is 128 shares and every midpoint is exact.
\* Prices are in cents, costs in cents times steps.
ShareSteps == 2^13
Sh(n) == n * ShareSteps
HighSteps == 2^Iterations

\* max_position_usdc: 0.3 dollars for each share of the upper bound
max_usdc == 30 * HighSteps

\* float('inf'), and a finite cost
Inf == [inf |-> TRUE, cost |-> 0]
Cost(c) == [inf |-> FALSE, cost |-> c]

Min(a, b) == IF a <= b THEN a ELSE b

\* lines 76-81: the loop over the levels, in list order
RECURSIVE walk(_, _, _)
walk(levels, remaining, cost) ==
  IF levels = <<>> THEN [remaining |-> remaining, cost |-> cost]
  ELSE LET take == Min(remaining, Head(levels).size)
       IN IF remaining - take <= 0
          THEN [remaining |-> remaining - take,
                cost |-> cost + take * Head(levels).price]
          ELSE walk(Tail(levels), remaining - take, cost + take * Head(levels).price)

\* mutant: an exhausted ladder is not noticed
not_enough_depth_ignored(remaining) == FALSE

\* line 83: `if remaining > 0`
not_enough_depth(remaining) == remaining > 0

\* SideBook.cost_to_fill(target_shares): the total cost, or inf
cost_to_fill(levels, target_shares) ==
  IF target_shares <= 0 THEN Cost(0)
  ELSE LET w == walk(levels, target_shares, 0)
       IN IF not_enough_depth(w.remaining) THEN Inf ELSE Cost(w.cost)

\* mutant: every size is kept, whatever its edge
edge_clears_always(edge, min_edge_cents) == TRUE

\* line 223: `if edge >= min_edge_cents`, the edge being (mid - total_cost) * 100
edge_clears(edge, min_edge_cents) == edge >= min_edge_cents * ShareSteps

\* lines 206-228: the bisection, `left` iterations before its end
\* mutant: the budget is not looked at
over_budget_never(total) == FALSE

\* line 216: `if total_cost > max_usdc`
over_budget(total) == total > max_usdc

RECURSIVE bisect(_, _, _, _, _, _, _)
bisect(up, down, min_edge_cents, left, low, high, best) ==
  IF left = 0 THEN best
  ELSE LET mid == (low + high) \div 2
           up_cost == cost_to_fill(up, mid)
           down_cost == cost_to_fill(down, mid)
           total == up_cost.cost + down_cost.cost
           edge == 100 * mid - total
       IN IF up_cost.inf \/ down_cost.inf
          THEN bisect(up, down, min_edge_cents, left - 1, low, mid, best)
          ELSE IF over_budget(total)
          THEN bisect(up, down, min_edge_cents, left - 1, low, mid, best)
          ELSE IF edge_clears(edge, min_edge_cents)
          THEN bisect(up, down, min_edge_cents, left - 1, mid, high,
                      [shares |-> mid, edge |-> edge])
          ELSE bisect(up, down, min_edge_cents, left - 1, low, mid, best)

\* BracketOrderbooks.get_optimal_size(max_usdc, min_edge_cents)
get_optimal_size(up, down, min_edge_cents) ==
  bisect(up, down, min_edge_cents, Iterations, 0, max_usdc \div 30, [shares |-> 0, edge |-> 0])

\* the ask ladders of the two books, as the stream exports them (ascending)
\* and as the REST fetch leaves them (in the order received)
UpAsks ==
  {<<>>, <<Level(48, Sh(10))>>, <<Level(48, Sh(10)), Level(52, Sh(50))>>,
   <<Level(52, Sh(50)), Level(48, Sh(10))>>, <<Level(45, Sh(200))>>,
   <<Level(40, Sh(4)), Level(49, Sh(60))>>}
DownAsks ==
  {<<>>, <<Level(50, Sh(20))>>, <<Level(50, Sh(5)), Level(51, Sh(100))>>,
   <<Level(45, Sh(200))>>, <<Level(54, Sh(30))>>}
MinEdges == {1, 5, 20, 100, 400}

\* scanner lines 365-381: the optimal size, and the cost of each leg at it
Evaluate ==
  \E up \in UpAsks, down \in DownAsks, min_edge_cents \in MinEdges :
    LET best == get_optimal_size(up, down, min_edge_cents)
    IN /\ input' = [fn |-> "get_optimal_size", up |-> up, down |-> down,
                    min_edge_cents |-> min_edge_cents]
       /\ output' = [fn |-> "get_optimal_size", target_shares |-> best.shares,
                     expected_edge |-> best.edge,
                     up_cost |-> cost_to_fill(up, best.shares),
                     down_cost |-> cost_to_fill(down, best.shares)]
       /\ UNCHANGED <<exec_vars, scanner_vars, book_vars, ws_vars, source_vars, late_vars>>

EvaluatorSpec == BookInit /\ [][Evaluate]_vars

(***************************************************************************)
(* Fill detection (clob_executor.py 152-202)                               *)
(***************************************************************************)
\* the order as get_order returns it: its status and the numeric fields the
\* detector reads, each absent (None) or a number of shares; an empty dict
\* is the order with no status and no field
Statuses == {"", "LIVE", "FILLED", "EXECUTED", "CANCELED", "REJECTED", "FAILED"}
RawOrders ==
  [status : Statuses,
   size : {None, Some(10)},
   size_matched : {None, Some(0), Some(5), Some(10)},
   remaining : {None, Some(0), Some(5)},
   size_remaining : {None, Some(0)}]
TargetSizes == {None, Some(10)}

\* Python's `a or b` on Optional[float]: a when it is neither None nor 0.0
py_or(a, b) == IF a.set /\ a.value # 0 THEN a ELSE b

\* _order_looks_filled(raw, target_size=target_size); the 1e-9 added to
\* `matched` is below the resolution of whole shares
order_looks_filled(raw, target_size) ==
  IF raw.status \in {"FILLED", "EXECUTED"} THEN TRUE
  ELSE IF raw.status \in {"CANCELED", "CANCELLED", "REJECTED", "FAILED"} THEN FALSE
  ELSE LET size == py_or(raw.size, None)
           matched == py_or(raw.size_matched, None)
           remaining == py_or(raw.remaining, raw.size_remaining)
           effective_target == IF target_size.set THEN target_size ELSE size
       IN IF remaining.set /\ remaining.value <= 0 THEN TRUE
          ELSE IF effective_target.set /\ matched.set
          THEN matched.value >= effective_target.value
          ELSE FALSE

\* DirectCLOBExecutor.wait_until_filled: one poll of the order before the deadline
PollOrder ==
  \E raw \in RawOrders, target_size \in TargetSizes :
    /\ input' = [fn |-> "order_looks_filled", raw |-> raw, target_size |-> target_size]
    /\ output' = [fn |-> "order_looks_filled", filled |-> order_looks_filled(raw, target_size)]
    /\ UNCHANGED <<exec_vars, scanner_vars, book_vars, ws_vars, source_vars, late_vars>>

FillSpec == BookInit /\ [][PollOrder]_vars

(***************************************************************************)
(* BTC15WSBookCache._lock (btc15_wss.py 108-161): the socket thread writes *)
(* a batched price_change entry by entry while it holds the lock, and the  *)
(* scanner thread reads a snapshot                                         *)
(***************************************************************************)
LockedMessages ==
  {PriceChangeMsg(ExampleChanges),
   PriceChangeMsg(<<Change("T", "SELL", 55, 0), Change("U", "SELL", 60, 10),
                    Change("T", "SELL", 55, 8)>>),
   PriceChangeMsg(<<Change("T", "BUY", 41, 5)>>)}
SwappedMessages ==
  {ExampleSnapshot, BookMsg("U", <<Level(40, 10)>>, <<Level(60, 10)>>)}

\* lines 119-124: a price_change message arrives and the thread takes the lock
lock_acquire(msg) ==
  /\ ~ingest.holding
  /\ ingest' = [holding |-> TRUE, msg |-> msg, pending |-> msg.price_changes,
                before |-> books,
                after |-> price_changes_applied([books |-> books, dirty |-> dirty_token_ids],
                                                msg.price_changes).books]
  /\ UNCHANGED <<exec_vars, scanner_vars, book_vars, ws_vars, source_vars, fn_vars, run_vars, orders_vars, exposure, snapshot>>

\* lines 125-151: one turn of `for ch in price_changes`, inside the lock
locked_entry ==
  /\ ingest.holding
  /\ ingest.pending # <<>>
  /\ LET cache == price_changes_applied([books |-> books, dirty |-> dirty_token_ids],
                                        <<Head(ingest.pending)>>)
     IN /\ books' = cache.books
        /\ dirty_token_ids' = cache.dirty
  /\ ingest' = [ingest EXCEPT !.pending = Tail(@)]
  /\ UNCHANGED <<exec_vars, scanner_vars, ws_vars, source_vars, fn_vars, run_vars, orders_vars, exposure, snapshot,
                 update_event, last_msg, written, drained, last_ts>>

\* lines 151-154: the loop is over, the lock is released and the event is set
lock_release ==
  /\ ingest.holding
  /\ ingest.pending = <<>>
  /\ ingest' = [holding |-> FALSE]
  /\ update_event' = TRUE
  /\ last_msg' = ingest.msg
  /\ written' = written \cup written_by(ingest.msg)
  /\ drained' = NoDrain
  /\ last_ts' = [t \in Tokens |-> IF t \in written_by(ingest.msg) THEN clock ELSE last_ts[t]]
  /\ UNCHANGED <<exec_vars, scanner_vars, ws_vars, source_vars, fn_vars, run_vars, orders_vars, exposure, snapshot,
                 books, dirty_token_ids>>

\* lines 82-114: a book message is built outside the lock and put in place
\* by one assignment inside it
lock_swap(msg) == ~ingest.holding /\ apply_market_event(msg)

\* mutant: the reader does not take the lock
reader_may_enter_unlocked(holding) == TRUE

\* line 157: `with self._lock` in get_orderbook
reader_may_enter(holding) == ~holding

\* the book a message in progress started from, and the one it ends at
BookBefore(t) == IF ingest.holding THEN ingest.before[t] ELSE books[t]
BookAfter(t) == IF ingest.holding THEN ingest.after[t] ELSE books[t]

\* BTC15WSBookCache.get_orderbook(token_id): None, or a MarketOrderbook made
\* of new lists of new OrderbookLevel objects
get_orderbook(t) ==
  /\ reader_may_enter(ingest.holding)
  /\ snapshot' = [taken |-> TRUE, token_id |-> t, found |-> books[t].present,
                  book |-> to_orderbook(books[t]),
                  none |-> to_orderbook(BookBefore(t)),
                  all |-> to_orderbook(BookAfter(t))]
  /\ UNCHANGED <<exec_vars, scanner_vars, book_vars, ws_vars, source_vars, fn_vars, run_vars, orders_vars, exposure, ingest>>

LockAcquire == \E msg \in LockedMessages : lock_acquire(msg)
LockSwap == \E msg \in SwappedMessages : lock_swap(msg)
GetOrderbook == \E t \in Tokens : get_orderbook(t)

LockNext == LockAcquire \/ locked_entry \/ lock_release \/ LockSwap \/ GetOrderbook

LockSpec == BookInit /\ [][LockNext]_vars

(***************************************************************************)
(* BTC15OptimizedScanner.scan, step 2 (btc15_scanner.py 207, 288-457): the *)
(* loop over the selected markets inside the one try of the tick           *)
(***************************************************************************)
\* how the body of the loop ends for one market: one of its `continue`s, one
\* of the three branches of step 5, an exception caught inside
\* _execute_bracket (600-648), or an exception raised by the body itself
BodyOutcomes ==
  {"SKIP_OPEN_POSITION", "BOOK_EMPTY", "NOT_FILLABLE", "AUTO_EXECUTE",
   "EXECUTE_FAILED", "BANKR_PROMPT", "raises"}
SelectedSlugs == <<"m1", "m2", "m3">>
MarketsToScan ==
  UNION {[1..n -> BodyOutcomes] : n \in 1..Len(SelectedSlugs)}

\* lines 207, 288-457: `try: ... for slug, market in markets_to_scan: ...
\* except Exception as e: last_error = str(e)`
RECURSIVE scan_markets(_, _, _)
scan_markets(outcomes, i, scanned) ==
  IF i > Len(outcomes) THEN [scanned |-> scanned, last_error |-> FALSE]
  ELSE IF outcomes[i] = "raises"
    THEN [scanned |-> Append(scanned, SelectedSlugs[i]), last_error |-> TRUE]
    ELSE scan_markets(outcomes, i + 1, Append(scanned, SelectedSlugs[i]))

\* one tick: scan() returns a ScanResult whatever happened (lines 459-481)
ScanLoop ==
  \E outcomes \in MarketsToScan :
    /\ input' = [fn |-> "scan", outcomes |-> outcomes]
    /\ output' = [fn |-> "scan", returned |-> TRUE,
                  result |-> scan_markets(outcomes, 1, <<>>)]
    /\ UNCHANGED <<exec_vars, scanner_vars, book_vars, ws_vars, source_vars, late_vars>>

LoopSpec == BookInit /\ [][ScanLoop]_vars

(***************************************************************************)
(* BracketOrderbooks.is_fillable_arb (btc15_clob.py 122-189), prices in    *)
(* cents, sizes in shares, money in cents                                  *)
(***************************************************************************)
\* SideBook.best_price / best_size (lines 51-58): 0 for an empty side
best_price(levels) == IF levels = <<>> THEN 0 ELSE levels[1].price
best_size(levels) == IF levels = <<>> THEN 0 ELSE levels[1].size

\* MarketOrderbook.spread (lines 99-103) compared with max_spread: the
\* spread is inf when a side is empty
spread_exceeds(book, max_spread) ==
  IF book.bids = <<>> \/ book.asks = <<>> THEN TRUE
  ELSE best_price(book.asks) - best_price(book.bids) > max_spread

\* SideBook.cost_to_fill for a whole number of shares (lines 65-87)
RECURSIVE fill_cost(_, _, _)
fill_cost(levels, remaining, cost) ==
  IF remaining <= 0 THEN Cost(cost)
  ELSE IF levels = <<>> THEN Inf
  ELSE LET take == Min(remaining, levels[1].size)
       IN fill_cost(Tail(levels), remaining - take, cost + take * levels[1].price)

\* BracketOrderbooks.edge_cents (lines 133-136)
edge_cents(up, down) == 100 - (best_price(up.asks) + best_price(down.asks))

\* is_fillable_arb(target_shares, min_edge_cents, max_spread, min_depth_usdc)
is_fillable_arb(up, down, target_shares, min_edge_cents, max_spread, min_depth) ==
  IF edge_cents(up, down) < min_edge_cents THEN FALSE
  ELSE IF spread_exceeds(up, max_spread) THEN FALSE
  ELSE IF spread_exceeds(down, max_spread) THEN FALSE
  ELSE IF best_size(up.asks) * best_price(up.asks) < min_depth THEN FALSE
  ELSE IF best_size(down.asks) * best_price(down.asks) < min_depth THEN FALSE
  ELSE LET up_cost == IF target_shares <= 0 THEN Cost(0)
                        ELSE fill_cost(up.asks, target_shares, 0)
           down_cost == IF target_shares <= 0 THEN Cost(0)
                          ELSE fill_cost(down.asks, target_shares, 0)
       IN IF up_cost.inf THEN FALSE
          ELSE IF down_cost.inf THEN FALSE
          ELSE ~(target_shares * 100 - (up_cost.cost + down_cost.cost) < min_edge_cents)

UpBooks ==
  {[bids |-> <<Level(b, 100)>>, asks |-> <<Level(a, s)>>] :
     b \in {47, 48}, a \in {49, 50, 52}, s \in {100, 300}}
  \cup {[bids |-> <<>>, asks |-> <<Level(49, 300)>>],
        [bids |-> <<Level(47, 100)>>, asks |-> <<>>]}
DownBooks ==
  {[bids |-> <<Level(b, 100)>>, asks |-> <<Level(a, 300)>>] :
     b \in {47, 48}, a \in {49, 50, 51}}
FillTargets == {1, 200}
EdgeFloors == {0, 1, 2}

CheckFillable ==
  \E up \in UpBooks, down \in DownBooks, n \in FillTargets, e \in EdgeFloors :
    /\ input' = [fn |-> "is_fillable_arb", up |-> up, down |-> down,
                 target_shares |-> n, min_edge_cents |-> e]
    /\ output' = [fn |-> "is_fillable_arb",
                  fillable |-> is_fillable_arb(up, down, n, e, 3, 5000)]
    /\ UNCHANGED <<exec_vars, scanner_vars, book_vars, ws_vars, source_vars, late_vars>>

PrecheckSpec == BookInit /\ [][CheckFillable]_vars

(***************************************************************************)
(* CLOBMarketWSSubscriber._run (btc15_wss.py 243-308): the reconnection    *)
(* loop of the btc15-wss thread. Seconds are counted in units of           *)
(* 1/BackoffUnit so that every product by 1.5 below the ceiling is exact.  *)
(***************************************************************************)
BackoffUnit == 2^7
initial_backoff == 1 * BackoffUnit
max_backoff == 20 * BackoffUnit

\* mutant: the delay stays what it was
next_backoff_constant(b) == b

\* line 308: backoff = min(backoff * 1.5, 20.0)
next_backoff(b) == Min((b * 3) \div 2, max_backoff)

run_unchanged == UNCHANGED <<exec_vars, scanner_vars, book_vars, source_vars, fn_vars,
                             lock_vars, orders_vars, exposure, waiter, stop_saw_waiter>>

\* start (207-216) and the head of _run (243-252): no live thread, _stop is
\* cleared, the thread starts with backoff = 1.0
run_start ==
  /\ run_pc \in {"none", "done"}
  /\ stop_set' = FALSE
  /\ run_pc' = "loop"
  /\ backoff' = initial_backoff
  /\ delay' = 0
  /\ UNCHANGED connected
  /\ run_unchanged

\* line 298: `while not self._stop.is_set()`, then 299-302: a WebSocketApp is
\* made and run_forever is entered, which is a connection attempt
run_loop ==
  /\ run_pc = "loop"
  /\ run_pc' = IF stop_set THEN "done" ELSE "run_forever"
  /\ UNCHANGED <<stop_set, connected, backoff, delay>>
  /\ run_unchanged

\* on_open (254-273): the socket is open
run_on_open ==
  /\ run_pc = "run_forever"
  /\ ~connected
  /\ connected' = TRUE
  /\ UNCHANGED <<stop_set, run_pc, backoff, delay>>
  /\ run_unchanged

\* on_message (275-287): the open socket delivers a message to the cache
run_on_message ==
  /\ run_pc = "run_forever"
  /\ connected
  /\ apply_market_event(ExampleSnapshot)

\* lines 289-303: the socket closes or fails (on_error, on_close, or an
\* exception out of run_forever, which line 302 swallows)
run_forever_returns ==
  /\ run_pc = "run_forever"
  /\ connected' = FALSE
  /\ run_pc' = "returned"
  /\ UNCHANGED <<stop_set, backoff, delay>>
  /\ run_unchanged

\* lines 305-307: `if self._stop.is_set(): break`, else time.sleep(backoff)
run_sleep ==
  /\ run_pc = "returned"
  /\ run_pc' = IF stop_set THEN "done" ELSE "sleeping"
  /\ delay' = IF stop_set THEN delay ELSE backoff
  /\ UNCHANGED <<stop_set, connected, backoff>>
  /\ run_unchanged

\* line 308: the sleep is over and backoff is raised
run_wake ==
  /\ run_pc = "sleeping"
  /\ backoff' = next_backoff(backoff)
  /\ run_pc' = "loop"
  /\ UNCHANGED <<stop_set, connected, delay>>
  /\ run_unchanged

\* stop (227-233): `self._stop.set()` and the socket is closed
run_stop ==
  /\ run_pc # "none"
  /\ ~stop_set
  /\ stop_set' = TRUE
  /\ connected' = FALSE
  /\ run_pc' = IF run_pc = "run_forever" THEN "returned" ELSE run_pc
  /\ UNCHANGED <<backoff, delay>>
  /\ run_unchanged

ReconnectNext ==
  run_start \/ run_loop \/ run_on_open \/ run_on_message \/ run_forever_returns
    \/ run_sleep \/ run_wake \/ run_stop

\* the thread is scheduled: the steps of _run that wait for nothing but the
\* scheduler or a finite sleep are taken
ThreadRuns == run_loop \/ run_sleep \/ run_wake

ReconnectSpec == BookInit /\ [][ReconnectNext]_vars /\ WF_vars(ThreadRuns)



(***************************************************************************)
(* BTC15OrdersStore.upsert column by column (btc15_two_phase.py 165-213)   *)
(***************************************************************************)
MaxWall == 2
NoRow == [present |-> FALSE]

\* the BTC15ExecutionRecord objects handed to upsert: created_at 0 stands
\* for the empty string of a record that was never stored
RecordsToStore ==
  [slug : {"m1", "m2"}, up_token_id : {"T"}, down_token_id : {"U"},
   target_shares : {1, 2}, state : {PLANNED, DONE}, created_at : {0, 1},
   updated_at : {0}, leg_a_job_id : {NoneId}, leg_b_job_id : {NoneId},
   leg_a_order_id : {NoneId, "o1"}, leg_b_order_id : {NoneId},
   execution_backend : {"clob"}, estimated_total_usdc : {1},
   leg_a_raw_json : {NoJson}, leg_b_raw_json : {NoJson}]

\* lines 166-169: created_at = now if the record has none, updated_at = now
stamped(r, now) ==
  [r EXCEPT !.created_at = IF @ = 0 THEN now ELSE @, !.updated_at = now]

\* lines 172-181: INSERT INTO btc15_orders (...) VALUES (...)
inserted_row(excluded) ==
  [present |-> TRUE, slug |-> excluded.slug, up_token_id |-> excluded.up_token_id,
   down_token_id |-> excluded.down_token_id, target_shares |-> excluded.target_shares,
   state |-> excluded.state, created_at |-> excluded.created_at,
   updated_at |-> excluded.updated_at,
   leg_a_job_id |-> excluded.leg_a_job_id, leg_b_job_id |-> excluded.leg_b_job_id,
   leg_a_order_id |-> excluded.leg_a_order_id, leg_b_order_id |-> excluded.leg_b_order_id,
   execution_backend |-> excluded.execution_backend,
   estimated_total_usdc |-> excluded.estimated_total_usdc,
   leg_a_raw_json |-> excluded.leg_a_raw_json, leg_b_raw_json |-> excluded.leg_b_raw_json]

\* mutant: the conflicting row is replaced by the new one
on_conflict_replace(old, excluded) == inserted_row(excluded)

\* lines 182-192: ON CONFLICT(execution_id) DO UPDATE SET ...
on_conflict_do_update(old, excluded) ==
  [old EXCEPT !.state = excluded.state,
              !.updated_at = excluded.updated_at,
              !.leg_a_job_id = excluded.leg_a_job_id,
              !.leg_b_job_id = excluded.leg_b_job_id,
              !.leg_a_order_id = excluded.leg_a_order_id,
              !.leg_b_order_id = excluded.leg_b_order_id,
              !.execution_backend = excluded.execution_backend,
              !.estimated_total_usdc = excluded.estimated_total_usdc,
              !.leg_a_raw_json = excluded.leg_a_raw_json,
              !.leg_b_raw_json = excluded.leg_b_raw_json]

\* BTC15OrdersStore.upsert(rec), the only statement of the module that
\* writes rows of the table
store_upsert(e, r) ==
  /\ table' = [table EXCEPT ![e] =
                 IF table[e].present THEN on_conflict_do_update(table[e], stamped(r, wall))
                 ELSE inserted_row(stamped(r, wall))]
  /\ input' = [fn |-> "upsert", execution_id |-> e, rec |-> r]
  /\ output' = [fn |-> "upsert", conflict |-> table[e].present]
  /\ UNCHANGED <<exec_vars, scanner_vars, book_vars, ws_vars, source_vars, lock_vars,
                 run_vars, wall, exposure>>

\* time passes between two writes
WallTick ==
  /\ wall < MaxWall
  /\ wall' = wall + 1
  /\ UNCHANGED <<exec_vars, scanner_vars, book_vars, ws_vars, source_vars, fn_vars,
                 lock_vars, run_vars, table, exposure>>

\* any record for e1, and the records of one bracket for e2
StoreUpsert ==
  \E e \in EIDs, r \in RecordsToStore :
    /\ e = "e2" => (r.slug = "m2" /\ r.leg_a_order_id = NoneId)
    /\ store_upsert(e, r)

OrdersNext == StoreUpsert \/ WallTick

OrdersSpec == BookInit /\ [][OrdersNext]_vars



(***************************************************************************)
(* BTC15OptimizedScanner.scan in event-driven mode (btc15_scanner.py       *)
(* 262-285): the markets of a tick are those of the drained dirty tokens   *)
(***************************************************************************)
\* self._token_to_slug (lines 245-260), one token of each of two brackets
token_to_slug(t) == IF t = "T" THEN "m1" ELSE "m2"
EventCaps == {0, 1, 2}          \* BTC15_WSS_EVENT_MAX_MARKETS_PER_TICK
TradeableSets == {{"m1", "m2"}, {"m2"}}
EventMessages ==
  {ExampleSnapshot, BookMsg("U", <<Level(40, 10)>>, <<Level(60, 10)>>),
   PriceChangeMsg(<<Change("T", "SELL", 55, 8), Change("U", "SELL", 61, 5)>>)}

\* the orders in which `for token_id in dirty_tokens` may go through a set
Orders(S) ==
  {o \in [1..Cardinality(S) -> S] : \A i, j \in 1..Cardinality(S) : i # j => o[i] # o[j]}

Max(a, b) == IF a >= b THEN a ELSE b

\* lines 271-279: the loop that fills dirty_slugs, with its break
RECURSIVE dirty_slugs_from(_, _, _, _, _)
dirty_slugs_from(order, i, tradeable, event_max_markets, dirty_slugs) ==
  IF i > Len(order) THEN dirty_slugs
  ELSE LET slug == token_to_slug(order[i])
       IN IF slug \in tradeable /\ \A k \in 1..Len(dirty_slugs) : dirty_slugs[k] # slug
          THEN IF Len(dirty_slugs) + 1 >= Max(1, event_max_markets)
               THEN Append(dirty_slugs, slug)
               ELSE dirty_slugs_from(order, i + 1, tradeable, event_max_markets,
                                     Append(dirty_slugs, slug))
          ELSE dirty_slugs_from(order, i + 1, tradeable, event_max_markets, dirty_slugs)

\* lines 269-281: drain_dirty_token_ids() empties the cache's set, and
\* markets_to_scan is made of dirty_slugs
event_driven_select(tradeable, event_max_markets, order) ==
  /\ drained' = [returned |-> TRUE, tokens |-> dirty_token_ids]
  /\ dirty_token_ids' = {}
  /\ written' = {}
  /\ last_msg' = NoMsg
  /\ input' = [fn |-> "event_driven_select", tradeable_markets |-> tradeable,
               event_max_markets |-> event_max_markets, order |-> order]
  /\ output' = [fn |-> "event_driven_select",
                markets_to_scan |-> dirty_slugs_from(order, 1, tradeable,
                                                     event_max_markets, <<>>)]
  /\ UNCHANGED <<books, update_event, last_ts, exec_vars, scanner_vars, ws_vars,
                 source_vars, late_vars>>

EventTick ==
  \E tradeable \in TradeableSets, event_max_markets \in EventCaps,
     order \in Orders(dirty_token_ids) :
    event_driven_select(tradeable, event_max_markets, order)

EventFeed == \E msg \in EventMessages : apply_market_event(msg)

EventNext == EventFeed \/ EventTick

EventSpec == BookInit /\ [][EventNext]_vars



(***************************************************************************)
(* execute_bracket across calls (btc15_two_phase.py 465, 510-546): the     *)
(* time a leg A has been on the exchange without its leg B, which goes on  *)
(* while the process is down or between two calls                          *)
(***************************************************************************)
MaxExposure == max_unhedged_seconds + 1

\* leg A of this execution was placed and leg B was not
Unhedged(e) == hist[e].placed_a > 0 /\ hist[e].placed_b = 0

\* one unit of time passes, between two calls or in a call between the two
\* reads of the clock: time.time() - start_unhedged (lines 465, 538) grows
\* in a running call, and so does the age of every placed leg A
time_passes ==
  /\ pc \in TimedPCs \cup {"idle", "returned"}
  /\ \/ pc \in TimedPCs /\ loc.elapsed < MaxElapsed
     \/ \E e \in EIDs : Unhedged(e) /\ exposure[e] < MaxExposure
  /\ loc' = IF pc \in TimedPCs THEN [loc EXCEPT !.elapsed = Min(@ + 1, MaxElapsed)] ELSE loc
  /\ exposure' = [e \in EIDs |->
                    IF Unhedged(e) THEN Min(exposure[e] + 1, MaxExposure) ELSE exposure[e]]
  /\ UNCHANGED <<cfg, store, pc, args, rec, result, calls, hist, today, journal,
                 scanner_vars, book_vars, ws_vars, source_vars, fn_vars, lock_vars,
                 run_vars, orders_vars>>

\* live trading, two open brackets allowed
ResumeInit ==
  /\ cfg = Cfg(FALSE, TRUE, 2, 0, 0, "bankr")
  /\ simulation_enabled = FALSE
  /\ Blank

ResumeNext ==
  \/ Call
  \/ mark_leg_a \/ place_leg_a \/ save_place_leg_a \/ confirm_leg_a
  \/ save_confirm_leg_a \/ decide_leg_a \/ resume_leg_a \/ resume_decide_leg_a
  \/ guard_leg_b \/ place_leg_b \/ save_place_leg_b \/ confirm_leg_b
  \/ save_confirm_leg_b \/ decide_leg_b \/ resume_leg_b \/ resume_decide_leg_b
  \/ finish
  \/ scanner_receives \/ Crash \/ time_passes

ResumeSpec == ResumeInit /\ [][ResumeNext]_vars

TypeOK ==
  /\ cfg \in Configs \cup {setup[1] : setup \in ScannerSetups}
                  \cup {[setup[1] EXCEPT !.trading_enabled = FALSE] : setup \in ScannerSetups}
  /\ pc \in {"idle", "returned", "mark_A", "place_A", "save_place_A", "confirm_A", "save_confirm_A",
             "decide_A", "resume_A", "resume_decide_A", "guard_B", "place_B",
             "save_place_B", "confirm_B", "save_confirm_B", "decide_B", "resume_B",
             "resume_decide_B", "finish"}
  /\ \A e \in EIDs : store[e].state \in BTC15ExecutionState \cup {ABSENT}
  /\ result \in {"none", "running", "true", "false", "raised", "prompted", "blocked"}


(***************************************************************************)
(* Claims about the two-phase executor                                     *)
(***************************************************************************)
InCall == pc \notin {"idle"}
Returned(values) == pc = "returned" /\ result \in values
HasCall(name) == \E i \in 1..Len(calls) : calls[i] = name

ValidEdge(a, b) ==
  \/ a = b
  \/ a = ABSENT /\ b = PLANNED
  \/ a = PLANNED /\ b = LEG_A_PLACED
  \/ a = LEG_A_PLACED /\ b = LEG_A_FILLED
  \/ a = LEG_A_FILLED /\ b = LEG_B_PLACED
  \/ a = LEG_B_PLACED /\ b = HEDGED_FILLED
  \/ a = HEDGED_FILLED /\ b = DONE
  \/ a \in {PLANNED, LEG_A_PLACED, LEG_A_FILLED, LEG_B_PLACED, HEDGED_FILLED} /\ b = ABORTED

PersistedStatesFollowPath ==
  [][\A e \in EIDs : ValidEdge(store[e].state, store'[e].state)]_vars

\* a call came back for a record that was already DONE, and found it DONE
CalledAgainOnDone ==
  /\ Returned({"true"})
  /\ args.found = DONE
  /\ store[args.eid].state = DONE

\* C3: no leg is placed twice for an execution id; a call that finds the record
\* in LEG_A_PLACED (LEG_B_PLACED) places no leg A (no leg at all) and confirms
\* with the id stored in the record.
NoSecondPlacement ==
  /\ \A e \in EIDs : hist[e].placed_a <= 1 /\ hist[e].placed_b <= 1
  /\ (InCall /\ args.found = LEG_A_PLACED) => ~HasCall("place_A")
  /\ (InCall /\ args.found = LEG_B_PLACED) => ~HasCall("place_A") /\ ~HasCall("place_B")
  /\ pc = "resume_decide_A" => loc.ext = StoredExternalId(store[args.eid], "A")
  /\ pc = "resume_decide_B" => loc.ext = StoredExternalId(store[args.eid], "B")
  /\ pc = "place_A" => Falsy(JobId(store[args.eid], "A")) /\ Falsy(OrderId(store[args.eid], "A"))
  /\ pc = "place_B" => Falsy(JobId(store[args.eid], "B")) /\ Falsy(OrderId(store[args.eid], "B"))

\* after a restart, leg A's stored id was confirmed again without a new placement
ResumedWithStoredId ==
  /\ pc = "resume_decide_A"
  /\ args.found = LEG_A_PLACED
  /\ loc.ext # ""
  /\ hist[args.eid].placed_a = 1
  /\ calls = <<"confirm_A">>

\* C4: execute_bracket returns success if and only if the record of its
\* execution id is DONE when the call returns.
SuccessIffDone ==
  Returned({"true", "false"}) =>
    (result = "true" <=> store[args.eid].state = DONE)

\* C5: a call for an execution id whose record is DONE or ABORTED returns at
\* once, makes no exchange call and leaves the store as it was.
TerminalCallIsNoOp ==
  [][(pc = "idle" /\ pc' # "idle" /\ store[args'.eid].state \in Terminal) =>
       /\ pc' = "returned"
       /\ calls' = <<>>
       /\ store' = store
       /\ hist' = hist]_vars

\* a call passed the gate and came back for a record that was ABORTED
CalledAgainOnAborted ==
  /\ Returned({"false"})
  /\ args.found = ABORTED
  /\ ~risk_gate_rejects(cfg, store, args.est, today)
  /\ store[args.eid].state = ABORTED
  /\ calls = <<>>


\* C6: with a daily cap set, on every UTC day the estimates of the records
\* created that day sum to at most the cap.
CreatedOn(day) == {e \in EIDs : store[e].state # ABSENT /\ store[e].created_day = day}

DailyCapRespected ==
  cfg.daily_estimated_usdc_cap # 0 =>
    \A day \in 0..MaxDay : SumEst(store, EIDs, day) <= cfg.daily_estimated_usdc_cap

\* two records of one day add up to exactly the cap
DailyCapReached ==
  /\ cfg.daily_estimated_usdc_cap # 0
  /\ \E day \in 0..MaxDay :
       /\ Cardinality(CreatedOn(day)) = 2
       /\ SumEst(store, EIDs, day) = cfg.daily_estimated_usdc_cap

\* C7: a call is rejected when trading is off outside dry-run, or the estimate
\* exceeds a non-zero per-bracket cap, or the estimate added to the day's sum
\* exceeds a non-zero daily cap, or the open records number max_open_brackets
\* or more; a rejected call returns false, writes no record and makes no
\* exchange call.
OpenRecords == {e \in EIDs : store[e].state \notin {ABSENT, DONE, ABORTED}}

KillSwitchOff == ~cfg.dry_run /\ ~cfg.trading_enabled
OverBracketCap(est) ==
  cfg.max_estimated_usdc_per_bracket # 0 /\ est > cfg.max_estimated_usdc_per_bracket
OverDailyCap(est) ==
  /\ cfg.daily_estimated_usdc_cap # 0
  /\ SumEst(store, EIDs, today) + est > cfg.daily_estimated_usdc_cap
TooManyOpen == Cardinality(OpenRecords) >= cfg.max_open_brackets

RiskGateRejects ==
  [][(/\ pc = "idle"
      /\ pc' # "idle"
      /\ \/ KillSwitchOff
         \/ OverBracketCap(args'.est)
         \/ OverDailyCap(args'.est)
         \/ TooManyOpen) =>
       /\ pc' = "returned"
       /\ result' = "false"
       /\ calls' = <<>>
       /\ store' = store
       /\ hist' = hist]_vars

\* a call for a new execution id was turned away by the daily cap alone
RejectedByDailyCap ==
  /\ Returned({"false"})
  /\ args.found = ABSENT
  /\ store[args.eid].state = ABSENT
  /\ calls = <<>>
  /\ OverDailyCap(args.est)
  /\ ~KillSwitchOff /\ ~OverBracketCap(args.est) /\ ~TooManyOpen

\* C8: when trading is permitted, a call that finds its record in LEG_A_PLACED
\* or LEG_B_PLACED confirms the stored id without placing that leg and returns
\* with the record in another state.
ResumeLeavesPlacedState ==
  (/\ Returned({"true", "false"})
   /\ args.found \in {LEG_A_PLACED, LEG_B_PLACED}
   /\ ~KillSwitchOff) =>
     /\ store[args.eid].state \notin {LEG_A_PLACED, LEG_B_PLACED}
     /\ HasCall(IF args.found = LEG_A_PLACED THEN "confirm_A" ELSE "confirm_B")
     /\ ~HasCall(IF args.found = LEG_A_PLACED THEN "place_A" ELSE "place_B")

\* C9: when confirm_filled is about to be awaited for a leg placed in this
\* call, the stored record already holds the external id and the placement
\* blob that place_limit returned.
ExternalIdColumn(r, leg) ==
  IF cfg.backend = "clob" THEN OrderId(r, leg) ELSE JobId(r, leg)

PlacementPersistedBeforeConfirm ==
  \A leg \in {"A", "B"} :
    pc = "confirm_" \o leg =>
      /\ ExternalIdColumn(store[args.eid], leg) = loc.ext
      /\ RawJson(store[args.eid], leg) = DumpPlace(loc.raw_place)

\* leg B was placed with an id and its confirmation is about to start
AboutToConfirmLegB ==
  /\ pc = "confirm_B"
  /\ loc.ext # ""
  /\ calls = <<"place_A", "confirm_A", "place_B">>

\* C10: whenever the executor is about to call place_limit or confirm_filled,
\* the state stored for the record equals the state of the in-memory record.
ExchangePCs == {"place_A", "confirm_A", "resume_A", "place_B", "confirm_B", "resume_B"}

StateCommittedBeforeExchangeCall ==
  pc \in ExchangePCs => store[args.eid].state = rec.state

\* leg B is about to be placed with LEG_B_PLACED in memory and in the store
AboutToPlaceLegB ==
  /\ pc = "place_B"
  /\ rec.state = LEG_B_PLACED
  /\ store[args.eid].state = LEG_B_PLACED

\* the call takes the branch `if not filled:` after the confirmation of a leg
DecidePCs(leg) == {"decide_" \o leg, "resume_decide_" \o leg}

NonFillReturn(leg) ==
  /\ pc \in DecidePCs(leg)
  /\ ~loc.filled
  /\ pc' = "returned"
  /\ result' = "false"

\* C11: whenever the fill confirmation of a leg that has an external order id
\* ends without a fill, by the time the call returns a cancel has been issued
\* for that leg and the record is stored as ABORTED, for leg A and for leg B
\* and with either backend.
NonFillCancelsAndAborts ==
  [][\A leg \in {"A", "B"} :
       (NonFillReturn(leg) /\ loc.ext # "") =>
         /\ \E i \in 1..Len(calls') : calls'[i] = "cancel_" \o leg
         /\ store'[args.eid].state = ABORTED]_vars

StoreFailureEndsCall ==
  [][/\ pc' \in ExchangePCs => store'[args'.eid] = rec'
     /\ (result' = "raised" /\ result # "raised") =>
          /\ pc' = "returned"
          /\ store' = store
     /\ pc = "returned" => (calls' = <<>> /\ store' = store /\ hist' = hist)
     /\ result' = "true" => store'[args'.eid].state = DONE]_vars

\* the write after leg A's confirmation failed: nothing was called after it
StoreWriteFailedAfterConfirm ==
  /\ Returned({"raised"})
  /\ cfg.backend = "bankr"
  /\ calls = <<"place_A", "confirm_A">>
  /\ store[args.eid].state = LEG_A_PLACED

\* C14: while dry_run is false and trading_enabled is false no step changes a
\* record or reaches a leg executor: every execute_bracket call returns False
\* at once; and the CLOB order placer has no response for a live order under
\* that configuration (it raises).
KillSwitchBlocksLiveOrders ==
  [][/\ KillSwitchOff =>
          /\ store' = store
          /\ hist' = hist
          /\ calls' = <<>>
          /\ pc' \in {"idle", "returned"}
          /\ result' \in {"none", "false"}
     /\ \A c \in Configs :
          (c.backend = "clob" /\ kill_switch_blocks(c)) => place_limit(c) = {}]_vars

\* a live call for a new execution id was turned away by the kill switch
LiveCallBlockedByKillSwitch ==
  /\ Returned({"false"})
  /\ KillSwitchOff
  /\ args.found = ABSENT
  /\ store[args.eid].state = ABSENT

\* C19: leg B is about to be placed only when at most max_unhedged_seconds
\* had elapsed since the start of the call when leg B was about to start;
\* when more had elapsed, the record is stored as ABORTED, the call returns
\* False and no order is placed or cancelled.
UnhedgedGuardAborts ==
  [][/\ pc' = "place_B" => loc'.elapsed <= max_unhedged_seconds
     /\ (/\ pc = "guard_B"
         /\ loc.elapsed > max_unhedged_seconds
         /\ pc' \notin {pc, "idle"}
         /\ result' # "raised") =>
          /\ pc' = "returned"
          /\ result' = "false"
          /\ store'[args.eid].state = ABORTED
          /\ calls' = calls
          /\ hist' = hist]_vars

\* leg A filled in this call, too late: the record was aborted before leg B
UnhedgedGuardAborted ==
  /\ Returned({"false"})
  /\ calls = <<"place_A", "confirm_A">>
  /\ hist[args.eid].a_filled_persisted
  /\ hist[args.eid].placed_b = 0
  /\ store[args.eid].state = ABORTED

FullPath == <<PLANNED, LEG_A_PLACED, LEG_A_FILLED, LEG_B_PLACED, HEDGED_FILLED, DONE>>

\* the call created the record and ran to a return value
FreshCallReturned ==
  /\ Returned({"true", "false"})
  /\ args.found = ABSENT
  /\ journal.states # <<>>

\* the call was ended by the unhedged guard
AbortedByGuard ==
  /\ result = "false"
  /\ journal.states = <<PLANNED, LEG_A_PLACED, LEG_A_FILLED, ABORTED>>

HasCode(o, code) == \E i \in 1..Len(o.codes) : o.codes[i] = code

\* the scanner has just routed an opportunity
Routed == pc = "idle" /\ opp' # NoOpp

\* an opportunity below the threshold: EDGE_TOO_SMALL and no executor call,
\* unless the simulation is on, when it is executed as SIM_EXECUTE
BelowThresholdRouting ==
  IF sim_enabled(cfg, simulation_enabled)
  THEN opp'.handed /\ HasCode(opp', "SIM_EXECUTE")
  ELSE /\ HasCode(opp', "EDGE_TOO_SMALL")
       /\ ~opp'.handed
       /\ store' = store
       /\ calls' = calls

OneOpenExecutionPerSlug ==
  \A e1 \in EIDs, e2 \in EIDs :
    (e1 # e2 /\ slug_of(e1) = slug_of(e2)) => ~(e1 \in OpenRecords /\ e2 \in OpenRecords)

\* C16: once the kill switch is off (dry_run false, trading_enabled false) the
\* scanner hands nothing to the executor, and every execution record that is
\* open then reaches DONE or ABORTED while the switch stays off.
KillSwitchLetsInFlightFinish ==
  /\ [](KillSwitchOff => ~opp.handed)
  /\ \A e \in EIDs :
       (KillSwitchOff /\ e \in OpenRecords) ~>
         (is_terminal(store[e].state) \/ ~KillSwitchOff)

(***************************************************************************)
(* Claims about the book cache, checked on BookSpec                        *)
(***************************************************************************)
AllPrices == UNION {BidPrices(t) \cup AskPrices(t) : t \in Tokens}

\* the indices of the levels of a `book` message that are kept at price p
KeptAt(levels, p) ==
  {i \in DOMAIN levels : levels[i].price = p /\ levels[i].price > 0 /\ levels[i].size > 0}

\* the ladder of a token's book on one side is exactly the message's levels
IsLadderOf(d, levels) ==
  /\ DOMAIN d = {p \in AllPrices : KeptAt(levels, p) # {}}
  /\ \A p \in DOMAIN d :
       d[p] = levels[CHOOSE i \in KeptAt(levels, p) : \A j \in KeptAt(levels, p) : j <= i].size

\* the entries of a `price_change` message that address (token, side, price)
EntriesAt(changes, t, side, p) ==
  {i \in DOMAIN changes :
     changes[i].asset_id = t /\ changes[i].side = side /\ changes[i].price = p}

\* old and new agree on the level at price p
SameLevel(old, new, p) ==
  /\ (p \in DOMAIN new) = (p \in DOMAIN old)
  /\ p \in DOMAIN old => new[p] = old[p]

\* the level at (t, side, p) after the message: what its last entry says,
\* and what it was when no entry addresses it
LevelFollows(changes, t, side, p, old, new) ==
  LET at == EntriesAt(changes, t, side, p)
      last == CHOOSE i \in at : \A j \in at : j <= i
  IN IF at = {} THEN SameLevel(old, new, p)
     ELSE IF changes[last].size = 0 THEN p \notin DOMAIN new
     ELSE p \in DOMAIN new /\ new[p] = changes[last].size

BookEventReplaces ==
  \A t \in Tokens :
    (last_msg'.event_type = "book" /\ last_msg'.asset_id = t) =>
      /\ IsLadderOf(books'[t].bids_by_price, last_msg'.bids)
      /\ IsLadderOf(books'[t].asks_by_price, last_msg'.asks)
      /\ \A u \in Tokens \ {t} : books'[u] = books[u]

PriceChangeMerges ==
  last_msg'.event_type = "price_change" =>
    \A t \in Tokens, p \in AllPrices :
      /\ LevelFollows(last_msg'.price_changes, t, "BUY", p,
                      books[t].bids_by_price, books'[t].bids_by_price)
      /\ LevelFollows(last_msg'.price_changes, t, "SELL", p,
                      books[t].asks_by_price, books'[t].asks_by_price)

ExampleMerge ==
  (/\ books["T"] = book_state(NoBook, ExampleSnapshot)
   /\ last_msg' = PriceChangeMsg(ExampleChanges)) =>
    /\ books'["T"].bids_by_price = dict_set(EmptyDict, 41, 5)
    /\ books'["T"].asks_by_price = dict_set(EmptyDict, 55, 8)

\* C20: a `book` event replaces the whole bid and ask ladders of its token
\* with the event's levels; each `price_change` entry sets the size at its
\* (side, price), or removes the level when its size is 0; every other level
\* and every other token stays as it was; the snapshot bids [(0.4,10)], asks
\* [(0.6,10)] followed by (BUY,0.41,5), (BUY,0.4,0), (SELL,0.6,0),
\* (SELL,0.55,8) gives bids [(0.41,5)], asks [(0.55,8)].
BookDeltaMerge == [][BookEventReplaces /\ PriceChangeMerges /\ ExampleMerge]_vars

\* the example's deltas have been merged while another token has a book
BookDeltaMerged ==
  /\ last_msg = PriceChangeMsg(ExampleChanges)
  /\ books["T"].bids_by_price = dict_set(EmptyDict, 41, 5)
  /\ books["T"].asks_by_price = dict_set(EmptyDict, 55, 8)
  /\ books["U"].present
(***************************************************************************)
(* Claims about the exported book, checked on RawFeedSpec                  *)
(***************************************************************************)
StrictlyDecreasing(levels) ==
  \A i \in 1..Len(levels) - 1 : levels[i].price > levels[i + 1].price
StrictlyIncreasing(levels) ==
  \A i \in 1..Len(levels) - 1 : levels[i].price < levels[i + 1].price
PositiveSizes(levels) == \A i \in 1..Len(levels) : levels[i].size > 0

\* C21: after any sequence of book and price_change events, for every token
\* the exported bid prices strictly decrease, the exported ask prices
\* strictly increase, and every exported level has a size above 0.
BookMonotonic ==
  \A t \in Tokens :
    LET ob == to_orderbook(books[t])
    IN /\ StrictlyDecreasing(ob.bids)
       /\ StrictlyIncreasing(ob.asks)
       /\ PositiveSizes(ob.bids) /\ PositiveSizes(ob.asks)

\* a book with two bids and two asks is exported while a level with a
\* negative price sits in the cache
TwoLevelsExported ==
  /\ Len(to_orderbook(books["T"]).bids) = 2
  /\ Len(to_orderbook(books["T"]).asks) = 2
  /\ \E p \in DOMAIN books["T"].bids_by_price : p < 0
(***************************************************************************)
(* Claims about the dirty set, checked on BookSpec                         *)
(***************************************************************************)
\* a drain returns exactly the tokens written since the drain before it
DrainReturnsWritten == drained'.returned => drained'.tokens = written

\* a drain right after a drain returns nothing
RepeatedDrainEmpty == (drained.returned /\ drained'.returned) => drained'.tokens = {}

\* C22: drain_dirty_token_ids returns exactly the set of tokens written by a
\* book or price_change message since the previous drain and clears the set
\* in the same step; however apply_market_event and the drain interleave,
\* no written token is lost, and a drain repeated at once is empty.
DirtySetDrain ==
  [][/\ DrainReturnsWritten
     /\ RepeatedDrainEmpty
     /\ drained'.returned => dirty_token_ids' = {}]_vars

\* two messages wrote to two tokens and one drain returned both
DrainedBothTokens ==
  /\ drained.returned
  /\ drained.tokens = Tokens
  /\ dirty_token_ids = {}
(***************************************************************************)
(* Claims about stopping the subscriber, checked on StopSpec               *)
(***************************************************************************)
\* C23: stop() closes the socket and releases a scanner thread blocked in
\* wait_for_update: the waiter returns because of the stop, signalled, and
\* not only when its own timeout expires.
StopReleasesWaiter == stop_saw_waiter ~> (waiter = "signaled")
(***************************************************************************)
(* Claims about the source of the books, checked on SourceSpec             *)
(***************************************************************************)
\* C24: for a selected bracket the scanner uses the streaming snapshot only
\* when a snapshot exists for both tokens and is not older than the
\* freshness budget; when a token's snapshot is missing or older than the
\* budget, the REST book fetch is used instead.
StreamingOnlyWhenFresh ==
  book_source.source = "wss" =>
    /\ has_bracket(up_token_id, down_token_id)
    /\ book_source.age <= FreshnessBudget
(***************************************************************************)
(* Claims about the tradeable window, checked on WindowSpec                *)
(***************************************************************************)
\* the configured bound, or its default
Configured(opt, default) == IF opt.set THEN opt.value ELSE default

\* C25: at any time the tradeable set is exactly the cached markets with
\* tradeable_min (2 min) <= end_time - now <= tradeable_max (14 min) and
\* end_time - now > no_trade_tail (90 s); a market whose end_time has passed
\* or that is inside the no-trade tail is never in the tradeable set.
TradeableWindow ==
  output.fn = "select_tradeable" =>
    output.markets =
      {m \in DOMAIN end_date :
         /\ Configured(input.env.min_min, tradeable_min_minutes) <= end_date[m] - input.now
         /\ end_date[m] - input.now <= Configured(input.env.max_min, tradeable_max_minutes)
         /\ end_date[m] - input.now > no_trade_last_seconds}
(***************************************************************************)
(* Claims about the catalog, checked on CatalogSpec                        *)
(***************************************************************************)
\* C26: a market record from which fewer than two usable (non-empty) token
\* ids can be extracted is rejected by the catalog: it is not cached, and no
\* book is ever fetched for it.
FewerThanTwoTokenIdsRejected ==
  (/\ output.fn = "market_details"
   /\ Len(normalize_token_ids(input.m.clobTokenIds)) < 2) =>
    ~output.cached /\ ~output.books_fetched
(***************************************************************************)
(* Claims about the evaluator, checked on EvaluatorSpec                    *)
(***************************************************************************)
RECURSIVE TotalSize(_)
TotalSize(levels) == IF levels = <<>> THEN 0 ELSE Head(levels).size + TotalSize(Tail(levels))

\* the levels of a ladder but the i-th
Without(levels, i) == [j \in 1..Len(levels) - 1 |-> IF j < i THEN levels[j] ELSE levels[j + 1]]

\* the cost of n shares taken from the cheapest level upwards
RECURSIVE AscendingCost(_, _)
AscendingCost(levels, n) ==
  IF n <= 0 \/ levels = <<>> THEN 0
  ELSE LET i == CHOOSE k \in DOMAIN levels : \A j \in DOMAIN levels : levels[k].price <= levels[j].price
           take == Min(n, levels[i].size)
       IN take * levels[i].price + AscendingCost(Without(levels, i), n - take)

CanFill(levels, n) == TotalSize(levels) >= n

\* C27: whenever get_optimal_size returns target_shares > 0, both ask ladders
\* can fill target_shares and (target_shares - (up_cost + down_cost)) * 100 >=
\* min_edge_cents, up_cost and down_cost being the costs of walking each ask
\* ladder in ascending price order for exactly target_shares.
EvaluatorSafe ==
  (output.fn = "get_optimal_size" /\ output.target_shares > 0) =>
    /\ CanFill(input.up, output.target_shares)
    /\ CanFill(input.down, output.target_shares)
    /\ 100 * output.target_shares
         - (AscendingCost(input.up, output.target_shares)
            + AscendingCost(input.down, output.target_shares))
       >= input.min_edge_cents * ShareSteps

\* a size is returned that reaches into the second level of a ladder
SizeBeyondBestLevel ==
  /\ output.fn = "get_optimal_size"
  /\ Len(input.up) = 2
  /\ output.target_shares > input.up[1].size

ProbeSizes(levels) == {Sh(1), TotalSize(levels), TotalSize(levels) + 1, Sh(250)}

\* C28: the target_shares the evaluator returns never exceeds the total ask
\* size of the UP book nor of the DOWN book; when a ladder is exhausted
\* before the requested size is reached, cost_to_fill reports the side
\* unfillable (infinite cost), and no such size is returned or executed.
DepthLimit ==
  output.fn = "get_optimal_size" =>
    /\ output.target_shares <= TotalSize(input.up)
    /\ output.target_shares <= TotalSize(input.down)
    /\ ~output.up_cost.inf /\ ~output.down_cost.inf
    /\ \A levels \in {input.up, input.down} :
         \A n \in ProbeSizes(levels) : n > TotalSize(levels) => cost_to_fill(levels, n).inf

\* the returned size is all the UP ladder holds
SizeAtDepthLimit ==
  /\ output.fn = "get_optimal_size"
  /\ output.target_shares > 0
  /\ output.target_shares = TotalSize(input.up)
(***************************************************************************)
(* Claims about fill detection, checked on FillSpec                        *)
(***************************************************************************)
HardFailure(raw) == raw.status \in {"CANCELED", "REJECTED", "FAILED"}
TerminalFill(raw) == raw.status \in {"FILLED", "EXECUTED"}
MatchedReachesTarget(raw, target_size) ==
  /\ raw.size_matched.set
  /\ \/ target_size.set /\ raw.size_matched.value >= target_size.value
     \/ ~target_size.set /\ raw.size.set /\ raw.size_matched.value >= raw.size.value
NothingRemaining(raw) == raw.remaining.set /\ raw.remaining.value = 0

\* C29: an order whose status is not CANCELED, REJECTED or FAILED is reported
\* filled whenever its status is a terminal fill state, or its cumulative
\* matched size >= target - epsilon, or its remaining size equals 0; an order
\* whose status is CANCELED, REJECTED or FAILED is never reported filled.
FillDetection ==
  output.fn = "order_looks_filled" =>
    /\ HardFailure(input.raw) => ~output.filled
    /\ (/\ ~HardFailure(input.raw)
        /\ \/ TerminalFill(input.raw)
           \/ MatchedReachesTarget(input.raw, input.target_size)
           \/ NothingRemaining(input.raw)) => output.filled
(***************************************************************************)
(* Claims about crossed books, checked on RawFeedSpec                      *)
(***************************************************************************)
\* C30: after any sequence of book and price_change events, every token's
\* book has best_bid < best_ask or at least one side empty: an update that
\* would make bid >= ask in the same book is dropped.
BookUncrossed ==
  \A t \in Tokens :
    LET ob == to_orderbook(books[t])
    IN \/ ob.bids = <<>>
       \/ ob.asks = <<>>
       \/ best_price(ob.bids) < best_price(ob.asks)
(***************************************************************************)
(* Claims about the cache lock, checked on LockSpec                        *)
(***************************************************************************)
\* C31: writes and reads of the book state exclude each other: a snapshot
\* returned by get_orderbook reflects all or none of the entries of any
\* single book message or batched price_change message for its token, and a
\* snapshot already returned is a copy that later writes never alter.
SnapshotAtomic ==
  [][/\ snapshot'.taken => snapshot'.book \in {snapshot'.none, snapshot'.all}
     /\ (snapshot.taken /\ books' # books) => snapshot' = snapshot]_vars

\* a snapshot of T was returned, and the example's four entries were then
\* written under the lock without touching it
SnapshotOutlivedWrite ==
  /\ snapshot.taken /\ snapshot.token_id = "T" /\ snapshot.found
  /\ ~ingest.holding
  /\ last_msg = PriceChangeMsg(ExampleChanges)
  /\ snapshot.book # to_orderbook(books["T"])

(***************************************************************************)
(* Claims about the scanner's loop, checked on LoopSpec                    *)
(***************************************************************************)
\* C32: a per-bracket error never aborts the scanner's loop: after an error
\* raised while processing one bracket, the scanner goes on to process the
\* remaining selected brackets (and the tick returns, so later ticks run).
ScanLoopGoesOn ==
  output.fn = "scan" =>
    /\ output.returned
    /\ Len(output.result.scanned) = Len(input.outcomes)

(***************************************************************************)
(* Claims about the edge pre-check, checked on PrecheckSpec                *)
(***************************************************************************)
\* C33: the evaluator rejects a bracket whenever best_ask_up + best_ask_down
\* >= 1 - min_edge_cents/100, equality included; in particular a bracket
\* whose best asks sum to 1 or more is never reported fillable.
EdgePrecheck ==
  (/\ output.fn = "is_fillable_arb"
   /\ best_price(input.up.asks) + best_price(input.down.asks)
        >= 100 - input.min_edge_cents)
    => ~output.fillable

(***************************************************************************)
(* Claims about reconnection, checked on ReconnectSpec                     *)
(***************************************************************************)
\* the thread goes to sleep before its next attempt
SleepBegins == run_pc = "returned" /\ run_pc' = "sleeping"

\* C34: after any disconnect or socket error, and until stop() is called,
\* the ingest task always makes a further connection attempt; the delay
\* before each attempt grows geometrically (by 1.5 from 1 second) and never
\* exceeds 20 seconds.
Reconnection ==
  /\ (run_pc = "returned" /\ ~stop_set) ~> (run_pc = "run_forever" \/ stop_set)
  /\ [][SleepBegins =>
          /\ delay' <= max_backoff
          /\ delay = 0 => delay' = initial_backoff
          /\ delay # 0 => delay' = Min((delay * 3) \div 2, max_backoff)]_vars

\* a connection attempt that follows a sleep of the full 20 seconds
AttemptAfterLongestDelay ==
  run_pc = "run_forever" /\ ~stop_set /\ delay = max_backoff

(***************************************************************************)
(* Claims about placement across crashes, checked on Spec                  *)
(***************************************************************************)
\* C35: for one execution_id, across any number of process crashes at any
\* point inside execute_bracket and any number of re-invocations,
\* place_limit is invoked at most once for leg A and at most once for leg B
\* (a crash after the *_PLACED state is persisted but before the external
\* id is stored included): a leg is placed only with its *_PLACED state
\* already in the table.
AtMostOncePlacement ==
  /\ \A e \in EIDs : hist[e].placed_a <= 1 /\ hist[e].placed_b <= 1
  /\ pc = "place_A" => store[args.eid].state = LEG_A_PLACED /\ hist[args.eid].placed_a = 0
  /\ pc = "place_B" => store[args.eid].state = LEG_B_PLACED /\ hist[args.eid].placed_b = 0

\* the process died after place_limit for leg A and before the id was
\* stored; the call made after the restart confirmed with no id
ResumedWithoutStoredId ==
  /\ pc = "resume_decide_A"
  /\ args.found = LEG_A_PLACED
  /\ Falsy(JobId(store[args.eid], "A")) /\ Falsy(OrderId(store[args.eid], "A"))
  /\ hist[args.eid].placed_a = 1

(***************************************************************************)
(* Claims about the orders table, checked on OrdersSpec                    *)
(***************************************************************************)
Identity(row) ==
  <<row.slug, row.up_token_id, row.down_token_id, row.target_shares, row.created_at>>

\* C36: once a record is persisted, no later upsert changes its slug,
\* up_token_id, down_token_id, target_shares or created_at, and no operation
\* deletes a record: the set of execution_ids only grows.
RecordIdentityFrozen ==
  [][\A e \in EIDs :
       table[e].present =>
         /\ table'[e].present
         /\ Identity(table'[e]) = Identity(table[e])]_vars

\* a stored record was written again, later, from a record object that names
\* another slug and another size, and the row took the new state only
UpsertWithOtherIdentity ==
  /\ input.fn = "upsert" /\ output.conflict
  /\ table[input.execution_id].slug # input.rec.slug
  /\ table[input.execution_id].target_shares # input.rec.target_shares
  /\ table[input.execution_id].state = input.rec.state
  /\ table[input.execution_id].updated_at > table[input.execution_id].created_at

(***************************************************************************)
(* Claims about re-entry, checked on ScannerSpec                           *)
(***************************************************************************)
\* the execution ended ABORTED with leg A filled: the position is unhedged
AbortedUnhedged(e) == store[e].state = ABORTED /\ hist[e].a_fill_confirmed

Selected(slug) ==
  \E k \in 1..Len(output.markets_to_scan) : output.markets_to_scan[k] = slug

PositionCap ==
  (output.fn = "get_optimal_size" /\ output.target_shares > 0) =>
    /\ ~output.up_cost.inf /\ ~output.down_cost.inf
    /\ output.up_cost.cost + output.down_cost.cost <= max_usdc
    /\ 30 * output.target_shares <= max_usdc

\* the budget, not the depth or the edge, is what stopped the size: both
\* ladders could fill twice the size returned, at a cost above max_usdc
SizeStoppedByBudget ==
  /\ output.fn = "get_optimal_size"
  /\ output.target_shares > 0
  /\ CanFill(input.up, 2 * output.target_shares)
  /\ CanFill(input.down, 2 * output.target_shares)
  /\ cost_to_fill(input.up, 2 * output.target_shares).cost
       + cost_to_fill(input.down, 2 * output.target_shares).cost > max_usdc

====
